---- MODULE Spec2Model ----
(***************************************************************************)
(* Vegetarian menu item extractor: the tiered classifier (keyword, RAG,    *)
(* LLM), the Classifier Tool's two strategies, the calculator, the MCP     *)
(* server's classify-and-calculate endpoint, and the REST API's review     *)
(* store with its correction endpoint.                                     *)
(*                                                                         *)
(* Conventions.                                                            *)
(*  - A dish name is a sequence of one-character strings, so that          *)
(*    lower(), substring containment and \b word boundaries are computed   *)
(*    as Python computes them.                                             *)
(*  - A confidence, relevance or threshold is an integer number of         *)
(*    thousandths (0.95 is 950); a price is an integer number of cents.    *)
(*  - Python's None / True / False for is_vegetarian are the strings       *)
(*    "null" / "true" / "false" (a three-valued field).                    *)
(*  - Free-text provenance (reasoning, evidence documents) never decides   *)
(*    control flow and is left out of tier results and classified items;   *)
(*    the correction path keeps its "Human verified" reasoning.            *)
(***************************************************************************)
EXTENDS Integers, Sequences, FiniteSets, TLC

(***************************************************************************)
(* Bounds of the model.                                                    *)
(***************************************************************************)
\* longest menu sent to the classification entry point
MaxItems == 2
\* longest JSON array an LLM batch response carries
MaxResp == 2
\* number of concurrent correction submissions
NumHandlers == 2
\* number of menus sent to the REST API
NumRequests == 1

(***************************************************************************)
(* Strings.                                                                *)
(***************************************************************************)
UpperToLower ==
  [c \in {"D", "E", "H", "P", "S", "T", "V"} |->
     CASE c = "D" -> "d" [] c = "E" -> "e" [] c = "H" -> "h" [] c = "P" -> "p"
       [] c = "S" -> "s" [] c = "T" -> "t" [] c = "V" -> "v"]

LowerChar(c) == IF c \in DOMAIN UpperToLower THEN UpperToLower[c] ELSE c

\* str.lower()
Lower(s) == [i \in 1..Len(s) |-> LowerChar(s[i])]

\* Python's `a in b` for strings
Contains(b, a) ==
  \E i \in 0..(Len(b) - Len(a)) : SubSeq(b, i + 1, i + Len(a)) = a

\* the characters regex \w matches
WordChars ==
  {"a", "b", "c", "d", "e", "f", "g", "h", "i", "j", "k", "l", "m", "n", "o",
   "p", "q", "r", "s", "t", "u", "v", "w", "x", "y", "z", "_",
   "0", "1", "2", "3", "4", "5", "6", "7", "8", "9"} \cup DOMAIN UpperToLower

IsWordAt(s, i) == i >= 1 /\ i <= Len(s) /\ s[i] \in WordChars

\* regex \b between positions i and i+1 of s
WordBoundary(s, i) == IsWordAt(s, i) # IsWordAt(s, i + 1)

\* WordSearch as a plain substring test, without the \b anchors
WordSearchSubstring(kw, s) == Contains(s, kw)

\* re.search(rf'\b{re.escape(kw)}\b', s)
WordSearch(kw, s) ==
  \E i \in 0..(Len(s) - Len(kw)) :
     /\ SubSeq(s, i + 1, i + Len(kw)) = kw
     /\ WordBoundary(s, i)
     /\ WordBoundary(s, i + Len(kw))

(***************************************************************************)
(* Knowledge base keyword lists (the part of them the dish names of the    *)
(* model can meet).                                                        *)
(***************************************************************************)
vegetarian_markers == {<<"(", "v", ")">>, <<"[", "v", "]">>}
positive_keywords == {<<"t", "o", "f", "u">>, <<"v", "e", "g", "a", "n">>}
negative_keywords == {<<"h", "a", "m">>, <<"t", "u", "n", "a">>}

KeywordConfidence == 950
KeywordDecisive == 900

\* KeywordClassification with the negative keywords tried first
KeywordNegativeFirst(dish_name) ==
  LET name_lower == Lower(dish_name) IN
  IF \E kw \in negative_keywords : WordSearch(kw, name_lower)
    THEN [is_vegetarian |-> "false", confidence |-> KeywordConfidence, method |-> "keyword"]
  ELSE IF \E m \in vegetarian_markers : Contains(name_lower, m)
    THEN [is_vegetarian |-> "true", confidence |-> KeywordConfidence, method |-> "keyword"]
  ELSE IF \E kw \in positive_keywords : WordSearch(kw, name_lower)
    THEN [is_vegetarian |-> "true", confidence |-> KeywordConfidence, method |-> "keyword"]
  ELSE [is_vegetarian |-> "null", confidence |-> 0, method |-> "keyword"]

\* LLMClassifier._keyword_classification
KeywordClassification(dish_name) ==
  LET name_lower == Lower(dish_name) IN
  IF \E m \in vegetarian_markers : Contains(name_lower, m)
    THEN [is_vegetarian |-> "true", confidence |-> KeywordConfidence, method |-> "keyword"]
  ELSE IF \E kw \in positive_keywords : WordSearch(kw, name_lower)
    THEN [is_vegetarian |-> "true", confidence |-> KeywordConfidence, method |-> "keyword"]
  ELSE IF \E kw \in negative_keywords : WordSearch(kw, name_lower)
    THEN [is_vegetarian |-> "false", confidence |-> KeywordConfidence, method |-> "keyword"]
  ELSE [is_vegetarian |-> "null", confidence |-> 0, method |-> "keyword"]

(***************************************************************************)
(* Dish names and the vector store.                                        *)
(***************************************************************************)
Tofu == <<"T", "o", "f", "u">>
Ham == <<"H", "a", "m">>
Dal == <<"D", "a", "l">>
Eel == <<"E", "e", "l">>
Soup == <<"S", "o", "u", "p">>
PeaSoup == <<"P", "e", "a", " ", "S", "o", "u", "p">>
\* a dish name only the LLM comes up with
Pho == <<"P", "h", "o">>

Names == {Tofu, Ham, Dal, Eel, Soup, PeaSoup}

Hit(rel, veg, type) ==
  [relevance_score |-> rel, is_vegetarian |-> veg, type |-> type]

\* VectorStore.search: the nearest neighbours of each name in the indexed
\* knowledge base, nearest first (the store is read-only after startup, so a
\* name always gets the same hits).
Search(name) ==
  CASE name = Dal -> <<Hit(650, "true", "dish"), Hit(650, "true", "ingredient"),
                       Hit(600, "false", "dish"), Hit(200, "false", "dish")>>
    [] name = Eel -> <<Hit(900, "false", "ingredient"), Hit(250, "true", "dish")>>
    [] name = Soup -> <<Hit(450, "true", "dish"), Hit(450, "false", "dish")>>
    [] name = PeaSoup -> <<Hit(700, "true", "dish"), Hit(600, "false", "dish")>>
    [] OTHER -> <<Hit(400, "true", "ingredient")>>

\* LLMClassifier._retrieve_evidence
RetrieveEvidence(dish_name) == Search(dish_name)

RECURSIVE ScoreOf(_, _)
\* the sum of the relevances of the hits labelled veg that pass the 0.3 floor
ScoreOf(evidence, veg) ==
  IF evidence = <<>> THEN 0
  ELSE LET h == Head(evidence) IN
       (IF h.relevance_score >= 300 /\ h.is_vegetarian = veg
          THEN h.relevance_score ELSE 0) + ScoreOf(Tail(evidence), veg)

Min(a, b) == IF a <= b THEN a ELSE b

\* LLMClassifier._analyze_rag_evidence (the quotient is taken in thousandths;
\* the hits above make it exact)
AnalyzeRagEvidence(evidence) ==
  IF evidence = <<>>
    THEN [is_vegetarian |-> "null", confidence |-> 0, method |-> "rag"]
  ELSE
    LET veg_score == ScoreOf(evidence, "true")
        non_veg_score == ScoreOf(evidence, "false")
    IN IF veg_score > non_veg_score /\ veg_score > 500
         THEN [is_vegetarian |-> "true",
               confidence |-> Min(850, (1000 * veg_score) \div (veg_score + non_veg_score + 100)),
               method |-> "rag"]
       ELSE IF non_veg_score > veg_score /\ non_veg_score > 500
         THEN [is_vegetarian |-> "false",
               confidence |-> Min(850, (1000 * non_veg_score) \div (veg_score + non_veg_score + 100)),
               method |-> "rag"]
       ELSE [is_vegetarian |-> "null", confidence |-> 300, method |-> "rag"]

(***************************************************************************)
(* Weighted combination.                                                   *)
(***************************************************************************)
Abs(x) == IF x < 0 THEN -x ELSE x

\* round(n / d) to the nearest integer, ties to even, for d > 0 and n >= 0
RoundDiv(n, d) ==
  LET q == n \div d
      r == n % d
  IN IF 2 * r < d THEN q
     ELSE IF 2 * r > d THEN q + 1
     ELSE IF q % 2 = 0 THEN q ELSE q + 1

\* a tier result as _combine_results reads it: r.get("is_vegetarian")
IsValid(r) == r.is_vegetarian # "null"

RECURSIVE SelectValid(_)
SelectValid(rs) ==
  IF rs = <<>> THEN <<>>
  ELSE IF IsValid(Head(rs)[1]) THEN <<Head(rs)>> \o SelectValid(Tail(rs))
  ELSE SelectValid(Tail(rs))

RECURSIVE WeightedSum(_, _)
\* sum(conf * w) over the valid results, or over the vegetarian ones only
WeightedSum(vs, vegOnly) ==
  IF vs = <<>> THEN 0
  ELSE LET r == Head(vs)[1]
           w == Head(vs)[2]
       IN (IF vegOnly /\ r.is_vegetarian # "true" THEN 0 ELSE r.confidence * w)
          + WeightedSum(Tail(vs), vegOnly)

RECURSIVE DoubtSum(_, _)
DoubtSum(vs, vegOnly) ==
  IF vs = <<>> THEN 0
  ELSE LET r == Head(vs)[1]
           w == Head(vs)[2]
       IN (IF vegOnly /\ r.is_vegetarian # "true" THEN 0
           ELSE (1000 - r.confidence) * w)
          + DoubtSum(Tail(vs), vegOnly)

\* CombineResults with each tier weighted by its doubt, 1 - confidence
CombineResultsByDoubt(keyword, rag, llm) ==
  LET valid_results == SelectValid(<<<<keyword, 4>>, <<rag, 3>>, <<llm, 3>>>>) IN
  IF valid_results = <<>>
    THEN [is_vegetarian |-> "null", confidence |-> 0, method |-> "combined"]
  ELSE
    LET weighted_sum == DoubtSum(valid_results, TRUE)
        total_weight == DoubtSum(valid_results, FALSE)
    IN IF total_weight = 0 THEN valid_results[1][1]
       ELSE [is_vegetarian |-> IF 2 * weighted_sum > total_weight THEN "true"
                               ELSE "false",
             confidence |-> RoundDiv(1000 * Abs(2 * weighted_sum - total_weight),
                                     Abs(total_weight)),
             method |-> "combined"]

\* CombineResults with an exact tie decided for vegetarian (p >= 0.5)
CombineResultsTieVegetarian(keyword, rag, llm) ==
  LET valid_results == SelectValid(<<<<keyword, 4>>, <<rag, 3>>, <<llm, 3>>>>) IN
  IF valid_results = <<>>
    THEN [is_vegetarian |-> "null", confidence |-> 0, method |-> "combined"]
  ELSE
    LET weighted_sum == WeightedSum(valid_results, TRUE)
        total_weight == WeightedSum(valid_results, FALSE)
    IN IF total_weight = 0 THEN valid_results[1][1]
       ELSE
         LET above == IF total_weight > 0 THEN 2 * weighted_sum >= total_weight
                      ELSE 2 * weighted_sum <= total_weight
             twice == Abs(2 * weighted_sum - total_weight)
         IN [is_vegetarian |-> IF above THEN "true" ELSE "false",
             confidence |-> RoundDiv(1000 * twice, Abs(total_weight)),
             method |-> "combined"]

\* LLMClassifier._combine_results; weights 0.4 / 0.3 / 0.3 in tenths
CombineResults(keyword, rag, llm) ==
  LET valid_results == SelectValid(<<<<keyword, 4>>, <<rag, 3>>, <<llm, 3>>>>) IN
  IF valid_results = <<>>
    THEN [is_vegetarian |-> "null", confidence |-> 0, method |-> "combined"]
  ELSE
    LET weighted_sum == WeightedSum(valid_results, TRUE)
        total_weight == WeightedSum(valid_results, FALSE)
    IN IF total_weight = 0 THEN valid_results[1][1]
       ELSE
         \* veg_probability = weighted_sum / total_weight
         LET above == IF total_weight > 0 THEN 2 * weighted_sum > total_weight
                      ELSE 2 * weighted_sum < total_weight
             twice == Abs(2 * weighted_sum - total_weight)
         IN [is_vegetarian |-> IF above THEN "true" ELSE "false",
             confidence |-> RoundDiv(1000 * twice, Abs(total_weight)),
             method |-> "combined"]

(***************************************************************************)
(* LLM tier.  What the provider does on one call is an input: the call     *)
(* raises (transport or HTTP error), or it returns text that holds no      *)
(* JSON, or text that holds JSON.  A JSON answer carries is_vegetarian     *)
(* and a confidence that is a number, is absent, or is a string float()    *)
(* rejects with ValueError.                                                *)
(***************************************************************************)
Answer(veg, kind, conf) ==
  [is_vegetarian |-> veg, conf_kind |-> kind, confidence |-> conf]

LLMAnswers ==
  {Answer("true", "num", 800), Answer("false", "num", 800),
   Answer("true", "num", 300), Answer("null", "absent", 0),
   Answer("true", "bad", 0)}

DefaultLLMConfidence == 700

\* float(data.get("confidence", 0.7))
ConfidenceOf(a) ==
  IF a.conf_kind = "absent" THEN DefaultLLMConfidence ELSE a.confidence

NullTier(method) == [is_vegetarian |-> "null", confidence |-> 0, method |-> method]

SingleOutcomes ==
  {[kind |-> "error", answer |-> Answer("null", "absent", 0)],
   [kind |-> "unparseable", answer |-> Answer("null", "absent", 0)]}
  \cup {[kind |-> "json", answer |-> a] : a \in LLMAnswers}

\* LLMClassifier._parse_llm_response
ParseLLMResponse(outcome) ==
  IF outcome.kind = "json" /\ outcome.answer.conf_kind # "bad"
    THEN [is_vegetarian |-> outcome.answer.is_vegetarian,
          confidence |-> ConfidenceOf(outcome.answer),
          method |-> "llm"]
  ELSE NullTier("llm")

\* LLMClassification with a failed call taken for a non-vegetarian guess of
\* the default confidence
LLMClassificationGuesses(provider, outcome) ==
  IF provider = "raise" \/ outcome.kind = "error"
    THEN [is_vegetarian |-> "false", confidence |-> DefaultLLMConfidence,
          method |-> "llm"]
  ELSE ParseLLMResponse(outcome)

\* LLMClassifier._llm_classification; provider is what _get_llm() yields,
\* "raise" when get_llm_provider raises inside the try block
LLMClassification(provider, outcome) ==
  IF provider = "raise" \/ outcome.kind = "error" THEN NullTier("llm")
  ELSE ParseLLMResponse(outcome)

(***************************************************************************)
(* Batch LLM call.                                                         *)
(***************************************************************************)
\* a missing or empty "dish"/"name" key
NoDish == <<>>

BatchObject(dish, a) == [dish |-> dish, answer |-> a]

EmptyMap == [x \in {} |-> x]

Put(f, k, v) == [x \in (DOMAIN f) \cup {k} |-> IF x = k THEN v ELSE f[x]]

BatchTier(a) ==
  [is_vegetarian |-> a.is_vegetarian, confidence |-> ConfidenceOf(a),
   method |-> "llm_batch"]

\* the items whose name contains, or is contained in, the dish name
Matching(items, dish_name) ==
  {j \in 1..Len(items) :
     \/ Contains(Lower(dish_name), Lower(items[j].name))
     \/ Contains(Lower(items[j].name), Lower(dish_name))}

SetMin(S) == CHOOSE x \in S : \A y \in S : x <= y

RECURSIVE FillMissing(_, _, _)
\* the loop after the except clause of _parse_batch_response
FillMissing(items, i, results) ==
  IF i > Len(items) THEN results
  ELSE FillMissing(items, i + 1,
         IF items[i].name \in DOMAIN results THEN results
         ELSE Put(results, items[i].name, NullTier("llm_batch")))

RECURSIVE ParseBatchFrom(_, _, _, _)
\* the loop over the parsed array in _parse_batch_response, from its i-th
\* object on (1-based)
ParseBatchFrom(data, items, i, results) ==
  IF i > Len(data) THEN results
  ELSE
    LET item_result == data[i]
        dish_name == IF item_result.dish # NoDish THEN item_result.dish
                     ELSE IF i <= Len(items) THEN items[i].name
                     ELSE NoDish
        matches == Matching(items, dish_name)
        key == IF matches # {} THEN items[SetMin(matches)].name ELSE dish_name
    IN IF dish_name = NoDish THEN ParseBatchFrom(data, items, i + 1, results)
       ELSE IF item_result.answer.conf_kind = "bad"
         \* float() raises ValueError: the except clause keeps what was
         \* stored so far and the fill loop completes it
         THEN FillMissing(items, 1, results)
       ELSE ParseBatchFrom(data, items, i + 1,
                           Put(results, key, BatchTier(item_result.answer)))

\* LLMClassifier._parse_batch_response
ParseBatchResponse(outcome, items) ==
  IF outcome.kind = "json" THEN ParseBatchFrom(outcome.data, items, 1, EmptyMap)
  ELSE FillMissing(items, 1, EmptyMap)

\* LLMClassifier.classify_batch_llm
ClassifyBatchLLM(provider, outcome, items) ==
  IF items = <<>> THEN EmptyMap
  ELSE IF provider = "raise" \/ outcome.kind = "error"
    THEN [n \in {items[j].name : j \in 1..Len(items)} |->
            [is_vegetarian |-> "null", confidence |-> 0, method |-> "llm_batch"]]
  ELSE ParseBatchResponse(outcome, items)

\* llm_results.get(name, {}) as _combine_results reads it
GetResult(llm_results, name) ==
  IF name \in DOMAIN llm_results THEN llm_results[name] ELSE NullTier("llm_batch")

(***************************************************************************)
(* Provider selection.                                                     *)
(***************************************************************************)
MinKeyLength == 10

\* OpenAIAvailable with a key of exactly ten characters accepted
OpenAIAvailableAtTen(key_len) == key_len >= MinKeyLength

\* OpenAIProvider.is_available
OpenAIAvailable(key_len) == key_len > MinKeyLength

\* get_llm_provider; probe1 and probe2 are the results of the two health
\* probes of the local server
GetLLMProvider(llm_provider, probe1, key_len, probe2) ==
  IF llm_provider = "ollama" /\ probe1 THEN "ollama"
  ELSE IF OpenAIAvailable(key_len) THEN "openai"
  ELSE IF probe2 THEN "ollama"
  ELSE "raise"

(***************************************************************************)
(* Classifier engine, single-item entry point.                             *)
(***************************************************************************)
\* Classify without the early return of a decisive keyword result: the
\* keyword tier is one vote among three
ClassifyKeywordAsVote(dish_name, confidence_threshold, llm_result) ==
  LET keyword_result == KeywordClassification(dish_name)
      rag_result == AnalyzeRagEvidence(RetrieveEvidence(dish_name))
  IN IF rag_result.confidence >= confidence_threshold THEN rag_result
     ELSE CombineResults(keyword_result, rag_result, llm_result)

\* LLMClassifier.classify, given what the LLM tier returns if it is reached
Classify(dish_name, confidence_threshold, llm_result) ==
  LET keyword_result == KeywordClassification(dish_name) IN
  IF keyword_result.confidence >= KeywordDecisive THEN keyword_result
  ELSE
    LET rag_result == AnalyzeRagEvidence(RetrieveEvidence(dish_name)) IN
    IF rag_result.confidence >= confidence_threshold THEN rag_result
    ELSE CombineResults(keyword_result, rag_result, llm_result)

\* f"{confidence:.2f}": the confidence in hundredths
Format2(confidence) == RoundDiv(confidence, 10)

\* an entry f"{method}:{confidence:.2f}" of fallback_chain
ChainEntry(method, confidence) == <<method, Format2(confidence)>>

\* the literal entry "fallback_to_rag"
FallbackToken == <<"fallback_to_rag">>

\* FallbackChain with llm_failed taken from the confidence alone
FallbackChainZeroOnly(dish_name, confidence_threshold, llm_result) ==
  LET keyword_result == KeywordClassification(dish_name)
      rag_result == AnalyzeRagEvidence(RetrieveEvidence(dish_name))
      chain1 == <<ChainEntry("keyword", keyword_result.confidence)>>
      chain2 == Append(chain1, ChainEntry("rag", rag_result.confidence))
      chain3 == Append(chain2, ChainEntry("llm", llm_result.confidence))
  IN IF keyword_result.confidence >= KeywordDecisive THEN chain1
     ELSE IF rag_result.confidence >= confidence_threshold THEN chain2
     ELSE IF llm_result.confidence = 0 THEN Append(chain3, FallbackToken)
     ELSE chain3

\* the fallback_chain LLMClassifier.classify puts on its result, given what
\* the LLM tier returns if it is reached
FallbackChain(dish_name, confidence_threshold, llm_result) ==
  LET keyword_result == KeywordClassification(dish_name)
      chain1 == <<ChainEntry("keyword", keyword_result.confidence)>>
  IN IF keyword_result.confidence >= KeywordDecisive THEN chain1
     ELSE
       LET rag_result == AnalyzeRagEvidence(RetrieveEvidence(dish_name))
           chain2 == Append(chain1, ChainEntry("rag", rag_result.confidence))
       IN IF rag_result.confidence >= confidence_threshold THEN chain2
          ELSE
            LET chain3 == Append(chain2, ChainEntry("llm", llm_result.confidence))
                llm_failed == \/ llm_result.confidence = 0
                              \/ llm_result.is_vegetarian = "null"
            IN IF llm_failed THEN Append(chain3, FallbackToken) ELSE chain3

\* classify gets as far as its _llm_classification call
ReachesLLM(dish_name, confidence_threshold) ==
  /\ KeywordClassification(dish_name).confidence < KeywordDecisive
  /\ AnalyzeRagEvidence(RetrieveEvidence(dish_name)).confidence < confidence_threshold

(***************************************************************************)
(* Classifier Tool.                                                        *)
(***************************************************************************)
ClassifiedItem(item, confidence, method) ==
  [name |-> item.name, price |-> item.price, confidence |-> confidence,
   source_image |-> item.source_image, method |-> method]

Uncertain(classified_item, is_veg) ==
  [name |-> classified_item.name, price |-> classified_item.price,
   confidence |-> classified_item.confidence,
   source_image |-> classified_item.source_image,
   method |-> classified_item.method,
   suggested_classification |-> is_veg]

Detailed(classified_item, is_veg) ==
  [name |-> classified_item.name, price |-> classified_item.price,
   confidence |-> classified_item.confidence,
   source_image |-> classified_item.source_image,
   method |-> classified_item.method,
   is_vegetarian |-> is_veg]

EmptyBuckets ==
  [vegetarian_items |-> <<>>, non_vegetarian_items |-> <<>>,
   uncertain_items |-> <<>>, all_items |-> <<>>, needs_llm |-> <<>>]

\* Bucket with the None test lost: an item no tier has an opinion on is
\* taken for a non-vegetarian one
BucketNullAsFalse(acc, classified_item, is_veg, confidence, hitl_threshold) ==
  IF is_veg # "null" /\ confidence < hitl_threshold
    THEN [acc EXCEPT !.uncertain_items = Append(@, Uncertain(classified_item, is_veg))]
  ELSE IF is_veg = "true"
    THEN [acc EXCEPT !.vegetarian_items = Append(@, classified_item)]
  ELSE [acc EXCEPT !.non_vegetarian_items = Append(@, classified_item)]

\* Bucket with an uncertain vegetarian guess also counted as vegetarian
BucketTwice(acc, classified_item, is_veg, confidence, hitl_threshold) ==
  IF is_veg = "null" \/ confidence < hitl_threshold
    THEN [acc EXCEPT !.uncertain_items = Append(@, Uncertain(classified_item, is_veg)),
                     !.vegetarian_items =
                        IF is_veg = "true" THEN Append(@, classified_item) ELSE @]
  ELSE IF is_veg = "true"
    THEN [acc EXCEPT !.vegetarian_items = Append(@, classified_item)]
  ELSE [acc EXCEPT !.non_vegetarian_items = Append(@, classified_item)]

\* the if / elif / else that ends both loops: classifier.py 104-110, 272-278
Bucket(acc, classified_item, is_veg, confidence, hitl_threshold) ==
  IF is_veg = "null" \/ confidence < hitl_threshold
    THEN [acc EXCEPT !.uncertain_items = Append(@, Uncertain(classified_item, is_veg))]
  ELSE IF is_veg = "true"
    THEN [acc EXCEPT !.vegetarian_items = Append(@, classified_item)]
  ELSE [acc EXCEPT !.non_vegetarian_items = Append(@, classified_item)]

\* one iteration of the loop of ClassifierTool._execute_sequential
SequentialItem(acc, item, result, hitl_threshold) ==
  LET classified_item == ClassifiedItem(item, result.confidence, result.method)
      is_veg == result.is_vegetarian
      listed == [acc EXCEPT !.all_items = Append(@, Detailed(classified_item, is_veg))]
  IN Bucket(listed, classified_item, is_veg, result.confidence, hitl_threshold)

NeedsLLM(item, rag_result) ==
  [name |-> item.name, price |-> item.price, source_image |-> item.source_image,
   rag_result |-> rag_result]

\* one iteration of the first loop of ClassifierTool._execute_with_batch
FirstPassItem(acc, item, confidence_threshold) ==
  LET keyword_result == KeywordClassification(item.name) IN
  IF keyword_result.confidence >= KeywordDecisive
    THEN LET classified_item == ClassifiedItem(item, keyword_result.confidence, "keyword")
             listed == [acc EXCEPT !.all_items =
                          Append(@, Detailed(classified_item, keyword_result.is_vegetarian))]
         IN IF keyword_result.is_vegetarian = "true"
              THEN [listed EXCEPT !.vegetarian_items = Append(@, classified_item)]
            ELSE [listed EXCEPT !.non_vegetarian_items = Append(@, classified_item)]
  ELSE
    LET rag_result == AnalyzeRagEvidence(RetrieveEvidence(item.name)) IN
    IF rag_result.confidence >= confidence_threshold
      THEN LET classified_item == ClassifiedItem(item, rag_result.confidence, "rag")
               listed == [acc EXCEPT !.all_items =
                            Append(@, Detailed(classified_item, rag_result.is_vegetarian))]
           IN IF rag_result.is_vegetarian = "true"
                THEN [listed EXCEPT !.vegetarian_items = Append(@, classified_item)]
              ELSE IF rag_result.is_vegetarian = "false"
                THEN [listed EXCEPT !.non_vegetarian_items = Append(@, classified_item)]
              ELSE [listed EXCEPT !.needs_llm = Append(@, NeedsLLM(item, rag_result))]
    ELSE [acc EXCEPT !.needs_llm = Append(@, NeedsLLM(item, rag_result))]

RECURSIVE FirstPass(_, _, _, _)
\* the first loop of ClassifierTool._execute_with_batch, from item i on
FirstPass(items, i, acc, confidence_threshold) ==
  IF i > Len(items) THEN acc
  ELSE FirstPass(items, i + 1,
                 FirstPassItem(acc, items[i], confidence_threshold),
                 confidence_threshold)

\* one iteration of the inner loop of the second pass: classifier.py 240-278
BatchItem(acc, item, llm_results, hitl_threshold) ==
  LET llm_result == GetResult(llm_results, item.name)
      combined == CombineResults(NullTier("keyword"), item.rag_result, llm_result)
      classified_item == ClassifiedItem(item, combined.confidence, "llm_batch")
      is_veg == combined.is_vegetarian
      listed == [acc EXCEPT !.all_items = Append(@, Detailed(classified_item, is_veg))]
  IN Bucket(listed, classified_item, is_veg, combined.confidence, hitl_threshold)

RECURSIVE BatchItems(_, _, _, _, _)
\* the inner loop of the second pass over one batch, from its j-th item on
BatchItems(batch, j, acc, llm_results, hitl_threshold) ==
  IF j > Len(batch) THEN acc
  ELSE BatchItems(batch, j + 1,
                  BatchItem(acc, batch[j], llm_results, hitl_threshold),
                  llm_results, hitl_threshold)

(***************************************************************************)
(* Calculator Tool.                                                        *)
(***************************************************************************)
\* isinstance(price, (int, float)) for price = item.get("price", 0.0).  An
\* item carries a numeric price in its field price and any other JSON value
\* (a string, null) in its field price_text; without either the default 0.0
\* is taken.
IsNumeric(item) == "price_text" \notin DOMAIN item

\* item.get("price", 0.0), for an item whose price is numeric
PriceOf(item) == IF "price" \in DOMAIN item THEN item.price ELSE 0

\* the test CalculatorTool.execute makes before it adds a price
Counted(item) == IsNumeric(item) /\ PriceOf(item) > 0

RECURSIVE SumPositive(_)
SumPositive(items) ==
  IF items = <<>> THEN 0
  ELSE (IF Counted(Head(items)) THEN PriceOf(Head(items)) ELSE 0)
       + SumPositive(Tail(items))

RECURSIVE SumNumeric(_)
SumNumeric(items) ==
  IF items = <<>> THEN 0
  ELSE (IF IsNumeric(Head(items)) THEN PriceOf(Head(items)) ELSE 0)
       + SumNumeric(Tail(items))

\* CalculatorExecute without the price > 0 test
CalculatorExecuteNoFilter(items) ==
  [total_sum |-> SumNumeric(items),
   item_count |-> Cardinality({i \in 1..Len(items) : IsNumeric(items[i])})]

\* CalculatorTool.execute (prices are whole cents, which round(total, 2)
\* leaves as they are)
CalculatorExecute(items) ==
  [total_sum |-> SumPositive(items),
   item_count |-> Cardinality({i \in 1..Len(items) : Counted(items[i])})]

(***************************************************************************)
(* State.                                                                  *)
(***************************************************************************)
VARIABLES
  settings,              \* configs.Settings, cached for the process lifetime
  ollama_up,             \* the local model server answers its health probe
  mcp_pc,                \* MCP server: "down", "idle", "sequential", "batch",
                         \* "classified", "responded"
  llm,                   \* LLMClassifier._llm: "none", "ollama", "openai"
  request_items,         \* ClassifyRequest.items of the request being served
  pos,                   \* next item (sequential) or needs_llm entry (batch)
  vegetarian_items,      \* the locals of ClassifierTool._execute_*
  non_vegetarian_items,
  uncertain_items,
  all_items,
  needs_llm,
  mcp_response,          \* what classify_and_calculate returns
  menu_items,            \* REST API: request id -> the items parsed for it
  api_response,          \* REST API: request id -> response of /process-menu
  pending_reviews,       \* review.py _pending_reviews
  feedback_log,          \* the records of the JSONL feedback file
  handler,               \* the position of each /review request handler
  call                   \* a direct call of one classifier or calculator
                         \* function: its name, arguments and result

mcp_vars ==
  <<mcp_pc, llm, request_items, pos, vegetarian_items, non_vegetarian_items,
    uncertain_items, all_items, needs_llm, mcp_response>>

api_vars == <<menu_items, api_response, pending_reviews, feedback_log, handler>>

vars == <<settings, ollama_up, mcp_vars, api_vars, call>>

(***************************************************************************)
(* Inputs.                                                                 *)
(***************************************************************************)
Prices == {0, 500}

Items == [name : Names, price : Prices, source_image : {1}]

SeqsUpTo(S, n) == UNION {[1..k -> S] : k \in 0..n}

Menus == SeqsUpTo(Items, MaxItems)

\* confidence_threshold, hitl_threshold
ThresholdConfigs == {<<600, 400>>, <<600, 700>>, <<300, 400>>}

\* llm_batch_enabled, llm_batch_size
StrategyConfigs == {<<FALSE, 8>>, <<TRUE, 8>>, <<TRUE, 1>>}

\* llm_provider, len(openai_api_key)
ProviderConfigs == {<<"ollama", 0>>, <<"ollama", 20>>}

SettingsOf(t, b, p) ==
  [confidence_threshold |-> t[1], hitl_threshold |-> t[2],
   llm_batch_enabled |-> b[1], llm_batch_size |-> b[2],
   llm_provider |-> p[1], openai_key_len |-> p[2]]

Configurations ==
  {SettingsOf(t, b, p) : t \in ThresholdConfigs, b \in StrategyConfigs,
                         p \in ProviderConfigs}

DefaultSettings == SettingsOf(<<600, 400>>, <<TRUE, 8>>, <<"ollama", 0>>)

BatchNames(batch) == {batch[j].name : j \in 1..Len(batch)}

BatchOutcomes(batch) ==
  {[kind |-> "error", data |-> <<>>], [kind |-> "unparseable", data |-> <<>>]}
  \cup {[kind |-> "json", data |-> d] :
          d \in SeqsUpTo({BatchObject(n, a) :
                            n \in BatchNames(batch) \cup {NoDish, Pho},
                            a \in LLMAnswers}, MaxResp)}

NoResponse == [status |-> "none"]

Buckets ==
  [vegetarian_items |-> vegetarian_items,
   non_vegetarian_items |-> non_vegetarian_items,
   uncertain_items |-> uncertain_items, all_items |-> all_items,
   needs_llm |-> needs_llm]

SetBuckets(acc) ==
  /\ vegetarian_items' = acc.vegetarian_items
  /\ non_vegetarian_items' = acc.non_vegetarian_items
  /\ uncertain_items' = acc.uncertain_items
  /\ all_items' = acc.all_items
  /\ needs_llm' = acc.needs_llm

MCPInit ==
  /\ mcp_pc = "down"
  /\ llm = "none"
  /\ request_items = <<>>
  /\ pos = 1
  /\ vegetarian_items = <<>>
  /\ non_vegetarian_items = <<>>
  /\ uncertain_items = <<>>
  /\ all_items = <<>>
  /\ needs_llm = <<>>
  /\ mcp_response = NoResponse

RequestIds == 1..NumRequests

Handlers == 1..NumHandlers

IdleHandler ==
  [pc |-> "idle", request_id |-> 0, corrections |-> <<>>, items |-> <<>>,
   result |-> "none", response |-> NoResponse]

APIInit ==
  /\ menu_items = [r \in RequestIds |-> <<>>]
  /\ api_response = [r \in RequestIds |-> NoResponse]
  /\ pending_reviews = EmptyMap
  /\ feedback_log = <<>>
  /\ handler = [h \in Handlers |-> IdleHandler]

\* no function is being called directly
NoCall == [op |-> "none"]

Init ==
  /\ settings \in Configurations
  /\ ollama_up \in BOOLEAN
  /\ MCPInit
  /\ APIInit
  /\ call = NoCall

(***************************************************************************)
(* MCP server.                                                             *)
(***************************************************************************)
\* src/mcp/main.py lifespan: builds the vector store and the two tools; the
\* LLMClassifier it constructs leaves _llm unset
Lifespan ==
  /\ mcp_pc = "down"
  /\ mcp_pc' = "idle"
  /\ UNCHANGED <<call, settings, ollama_up, llm, request_items, pos, vegetarian_items,
                 non_vegetarian_items, uncertain_items, all_items, needs_llm,
                 mcp_response, api_vars>>

\* LLMClassifier._get_llm: the cached provider, else get_llm_provider()
GetLLM ==
  IF llm # "none" THEN llm
  ELSE GetLLMProvider(settings.llm_provider, ollama_up, settings.openai_key_len,
                      ollama_up)

\* ClassifierTool.execute up to its first LLM call: the dispatch on
\* llm_batch_enabled, and the first pass of the batch strategy
ExecuteStart(items) ==
  /\ mcp_pc = "idle"
  /\ request_items' = items
  /\ pos' = 1
  /\ mcp_response' = NoResponse
  /\ IF settings.llm_batch_enabled
       THEN /\ SetBuckets(FirstPass(items, 1, EmptyBuckets, settings.confidence_threshold))
            /\ mcp_pc' = "batch"
       ELSE /\ SetBuckets(EmptyBuckets)
            /\ mcp_pc' = "sequential"

\* POST /tools/classify-and-calculate sent by a client of the MCP server
Execute(items) ==
  /\ ExecuteStart(items)
  /\ UNCHANGED <<call, settings, ollama_up, llm, api_vars>>

\* _execute_sequential: one item, with the LLM call classify may make
SequentialStep ==
  /\ mcp_pc = "sequential"
  /\ pos <= Len(request_items)
  /\ LET item == request_items[pos]
         reaches == ReachesLLM(item.name, settings.confidence_threshold)
         provider == GetLLM
     IN /\ \E outcome \in (IF reaches /\ provider # "raise" THEN SingleOutcomes
                           ELSE {[kind |-> "error", answer |-> Answer("null", "absent", 0)]}) :
             SetBuckets(SequentialItem(Buckets, item,
                          Classify(item.name, settings.confidence_threshold,
                                   LLMClassification(provider, outcome)),
                          settings.hitl_threshold))
        /\ llm' = IF reaches /\ provider # "raise" THEN provider ELSE llm
  /\ pos' = pos + 1
  /\ UNCHANGED <<call, settings, ollama_up, mcp_pc, request_items, mcp_response, api_vars>>

\* _execute_with_batch: one batch of the second pass, with its LLM call
BatchStep ==
  /\ mcp_pc = "batch"
  /\ pos <= Len(needs_llm)
  /\ LET batch == SubSeq(needs_llm, pos,
                         Min(Len(needs_llm), pos + settings.llm_batch_size - 1))
         provider == GetLLM
     IN /\ \E outcome \in (IF provider # "raise" THEN BatchOutcomes(batch)
                           ELSE {[kind |-> "error", data |-> <<>>]}) :
             SetBuckets(BatchItems(batch, 1, Buckets,
                                   ClassifyBatchLLM(provider, outcome, batch),
                                   settings.hitl_threshold))
        /\ llm' = IF provider # "raise" THEN provider ELSE llm
  /\ pos' = pos + settings.llm_batch_size
  /\ UNCHANGED <<call, settings, ollama_up, mcp_pc, request_items, mcp_response, api_vars>>

\* the return statement of _execute_sequential / _execute_with_batch
ExecuteReturn ==
  /\ mcp_pc \in {"sequential", "batch"}
  /\ pos > Len(IF mcp_pc = "sequential" THEN request_items ELSE needs_llm)
  /\ mcp_pc' = "classified"
  /\ UNCHANGED <<call, settings, ollama_up, llm, request_items, pos, vegetarian_items,
                 non_vegetarian_items, uncertain_items, all_items, needs_llm,
                 mcp_response, api_vars>>

\* Response with the partial sum taken over every classified item
ResponseSumsAll(classification) ==
  IF classification.uncertain_items # <<>>
    THEN [status |-> "needs_review",
          confident_items |-> classification.vegetarian_items,
          uncertain_items |-> classification.uncertain_items,
          partial_sum |-> CalculatorExecute(classification.all_items).total_sum,
          all_items |-> classification.all_items]
  ELSE [status |-> "success",
        vegetarian_items |-> classification.vegetarian_items,
        total_sum |-> CalculatorExecute(classification.vegetarian_items).total_sum,
        all_items |-> classification.all_items]

\* classify_and_calculate after classifier_tool.execute: main.py 130-157
Response(classification) ==
  IF classification.uncertain_items # <<>>
    THEN [status |-> "needs_review",
          confident_items |-> classification.vegetarian_items,
          uncertain_items |-> classification.uncertain_items,
          partial_sum |-> CalculatorExecute(classification.vegetarian_items).total_sum,
          all_items |-> classification.all_items]
  ELSE [status |-> "success",
        vegetarian_items |-> classification.vegetarian_items,
        total_sum |-> CalculatorExecute(classification.vegetarian_items).total_sum,
        all_items |-> classification.all_items]

ClassifyAndCalculate ==
  /\ mcp_pc = "classified"
  /\ mcp_response' = Response(Buckets)
  /\ mcp_pc' = "responded"
  /\ UNCHANGED <<call, settings, ollama_up, llm, request_items, pos, vegetarian_items,
                 non_vegetarian_items, uncertain_items, all_items, needs_llm,
                 api_vars>>

\* the response is sent and the handler's locals are dropped
ResponseSent ==
  /\ mcp_pc = "responded"
  /\ mcp_pc' = "idle"
  /\ request_items' = <<>>
  /\ pos' = 1
  /\ SetBuckets(EmptyBuckets)
  /\ mcp_response' = NoResponse

RequestDone ==
  /\ ResponseSent
  /\ UNCHANGED <<call, settings, ollama_up, llm, api_vars>>

Next ==
  \/ Lifespan
  \/ \E items \in Menus : Execute(items)
  \/ SequentialStep
  \/ BatchStep
  \/ ExecuteReturn
  \/ ClassifyAndCalculate
  \/ RequestDone

Spec == Init /\ [][Next]_vars

(***************************************************************************)
(* Corrections.                                                            *)
(***************************************************************************)
RECURSIVE CorrectionMap(_, _)
\* the dict comprehension of recompute_with_corrections: a later correction
\* of the same lower-cased name replaces an earlier one
CorrectionMap(corrections, m) ==
  IF corrections = <<>> THEN m
  ELSE CorrectionMap(Tail(corrections),
                     Put(m, Lower(Head(corrections).name), Head(corrections).is_vegetarian))

HumanVerified(item) ==
  [name |-> item.name, price |-> PriceOf(item), confidence |-> 1000,
   reasoning |-> "Human verified"]

\* PriorVegetarian with True as the default of a missing is_vegetarian
PriorVegetarianByDefault(item) ==
  "is_vegetarian" \notin DOMAIN item \/ item.is_vegetarian = "true"

\* item.get("is_vegetarian", False)
PriorVegetarian(item) ==
  "is_vegetarian" \in DOMAIN item /\ item.is_vegetarian = "true"

RECURSIVE RecomputeItemsIfIf(_, _)
\* RecomputeItems with `if` in place of `elif`: the prior label is looked at
\* for corrected items too
RecomputeItemsIfIf(items, correction_map) ==
  IF items = <<>> THEN <<>>
  ELSE LET item == Head(items)
           name_lower == Lower(item.name)
           rest == RecomputeItemsIfIf(Tail(items), correction_map)
       IN (IF name_lower \in DOMAIN correction_map /\ correction_map[name_lower]
             THEN <<HumanVerified(item)>> ELSE <<>>)
          \o (IF PriorVegetarian(item) THEN <<item>> ELSE <<>>)
          \o rest

RECURSIVE RecomputeItems(_, _)
RecomputeItems(items, correction_map) ==
  IF items = <<>> THEN <<>>
  ELSE LET item == Head(items)
           name_lower == Lower(item.name)
           rest == RecomputeItems(Tail(items), correction_map)
       IN IF name_lower \in DOMAIN correction_map
            THEN IF correction_map[name_lower] THEN <<HumanVerified(item)>> \o rest
                 ELSE rest
          ELSE IF PriorVegetarian(item) THEN <<item>> \o rest
          ELSE rest

RECURSIVE SumPrices(_)
\* sum(i.get("price", 0.0) for i in vegetarian_items)
SumPrices(items) ==
  IF items = <<>> THEN 0 ELSE PriceOf(Head(items)) + SumPrices(Tail(items))

\* CalculatorTool.recompute_with_corrections
RecomputeWithCorrections(items, corrections) ==
  LET vegetarian == RecomputeItems(items, CorrectionMap(corrections, EmptyMap)) IN
  [vegetarian_items |-> vegetarian,
   total_sum |-> SumPrices(vegetarian),
   corrections_applied |-> Len(corrections)]

(***************************************************************************)
(* REST API: /process-menu and /review.                                    *)
(***************************************************************************)
MenuItem(name, price) == [name |-> name, price |-> price, source_image |-> 1]

\* the menus the OCR and the parser hand to _process_images
ReviewMenus == SeqsUpTo({MenuItem(Tofu, 500), MenuItem(Soup, 300)}, MaxItems)

MaxCorrections == 1

\* the corrections a reviewer submits: the uncertain dish confirmed, a
\* confident dish overruled under its lower-cased name
Corrections ==
  SeqsUpTo({[name |-> Soup, is_vegetarian |-> TRUE],
            [name |-> Lower(Tofu), is_vegetarian |-> FALSE]}, MaxCorrections)

SchemaFields == {"name", "price", "confidence", "reasoning", "source_image", "method"}

\* ClassifiedItemSchema(**item): the fields of the schema the item carries
ClassifiedItemSchema(item) ==
  [f \in (DOMAIN item) \cap SchemaFields |-> item[f]]

UncertainFields ==
  {"name", "price", "confidence", "suggested_classification", "source_image"}

\* UncertainItemSchema(**item)
UncertainItemSchema(item) ==
  [f \in (DOMAIN item) \cap UncertainFields |-> item[f]]

ClassifiedList(items) == [i \in 1..Len(items) |-> ClassifiedItemSchema(items[i])]

UncertainList(items) == [i \in 1..Len(items) |-> UncertainItemSchema(items[i])]

\* _process_images after the MCP call, and _build_hitl_response
BuildResponse(result) ==
  IF result.status = "needs_review"
    THEN [status |-> "needs_review",
          uncertain_items |-> UncertainList(result.uncertain_items),
          confident_items |-> ClassifiedList(result.confident_items),
          partial_sum |-> result.partial_sum]
  ELSE [status |-> "success",
        vegetarian_items |-> ClassifiedList(result.vegetarian_items),
        total_sum |-> result.total_sum]

\* _process_images up to its awaited MCP call (an empty menu is answered at
\* once, without a call)
ProcessMenu(r, items) ==
  /\ api_response[r].status = "none"
  /\ menu_items' = [menu_items EXCEPT ![r] = items]
  /\ IF items = <<>>
       THEN /\ api_response' = [api_response EXCEPT ![r] =
                 [status |-> "success", vegetarian_items |-> <<>>, total_sum |-> 0]]
            /\ UNCHANGED mcp_vars
       ELSE /\ ExecuteStart(items)
            /\ api_response' = [api_response EXCEPT ![r] = [status |-> "calling_mcp"]]
            /\ UNCHANGED llm
  /\ UNCHANGED <<call, settings, ollama_up, pending_reviews, feedback_log, handler>>

\* _process_images from the MCP response on
ProcessMenuReturn(r) ==
  /\ api_response[r].status = "calling_mcp"
  /\ ResponseSent
  /\ api_response' = [api_response EXCEPT ![r] = BuildResponse(mcp_response)]
  /\ UNCHANGED <<call, settings, ollama_up, llm, menu_items, pending_reviews,
                 feedback_log, handler>>

\* review.py store_pending_review.  Nothing under src/ calls it; it is the
\* put of the review store as a caller would use it for a request that was
\* answered needs_review, before any correction for that request arrives.
StorePendingReview(r) ==
  /\ api_response[r].status = "needs_review"
  /\ \A h \in Handlers : handler[h].request_id # r
  /\ pending_reviews' = Put(pending_reviews, r,
                            [items |-> menu_items[r], partial_result |-> api_response[r]])
  /\ UNCHANGED <<call, settings, ollama_up, mcp_vars, menu_items, api_response,
                 feedback_log, handler>>

\* the records log_feedback writes
FeedbackRecords(request_id, corrections) ==
  [i \in 1..Len(corrections) |->
     [request_id |-> request_id, dish_name |-> corrections[i].name,
      human_label |-> corrections[i].is_vegetarian,
      feedback_type |-> "hitl_correction"]]

\* review.py log_feedback; written says whether the file could be written
LogFeedback(request_id, corrections, written) ==
  IF written THEN feedback_log \o FeedbackRecords(request_id, corrections)
  ELSE feedback_log

\* SubmitReview with log_feedback called before the pending review is looked up
SubmitReviewLogsFirst(h, r, corrections) ==
  /\ handler[h].pc = "idle"
  /\ \E written \in BOOLEAN :
       /\ feedback_log' = LogFeedback(r, corrections, written)
       /\ IF r \notin DOMAIN pending_reviews
            THEN handler' = [handler EXCEPT ![h] =
                   [@ EXCEPT !.pc = "done", !.request_id = r,
                             !.corrections = corrections, !.result = "not_found"]]
            ELSE handler' = [handler EXCEPT ![h] =
                   [@ EXCEPT !.pc = "await_recompute", !.request_id = r,
                             !.corrections = corrections,
                             !.items = pending_reviews[r].items]]
  /\ UNCHANGED <<call, settings, ollama_up, mcp_vars, menu_items, api_response,
                 pending_reviews>>

\* SubmitReview with the failure of the feedback write raised to the caller
SubmitReviewLogRaises(h, r, corrections) ==
  /\ handler[h].pc = "idle"
  /\ IF r \notin DOMAIN pending_reviews
       THEN /\ handler' = [handler EXCEPT ![h] =
                 [@ EXCEPT !.pc = "done", !.request_id = r,
                           !.corrections = corrections, !.result = "not_found"]]
            /\ UNCHANGED feedback_log
       ELSE \E written \in BOOLEAN :
            /\ feedback_log' = LogFeedback(r, corrections, written)
            /\ handler' = [handler EXCEPT ![h] =
                 IF written
                   THEN [@ EXCEPT !.pc = "await_recompute", !.request_id = r,
                                  !.corrections = corrections,
                                  !.items = pending_reviews[r].items]
                 ELSE [@ EXCEPT !.pc = "done", !.request_id = r,
                                !.corrections = corrections, !.result = "error"]]
  /\ UNCHANGED <<call, settings, ollama_up, mcp_vars, menu_items, api_response,
                 pending_reviews>>

\* submit_review up to its awaited recompute call: review.py 118-131
SubmitReview(h, r, corrections) ==
  /\ handler[h].pc = "idle"
  /\ IF r \notin DOMAIN pending_reviews
       THEN /\ handler' = [handler EXCEPT ![h] =
                 [@ EXCEPT !.pc = "done", !.request_id = r,
                           !.corrections = corrections, !.result = "not_found"]]
            /\ UNCHANGED feedback_log
       ELSE \E written \in BOOLEAN :
            /\ feedback_log' = LogFeedback(r, corrections, written)
            /\ handler' = [handler EXCEPT ![h] =
                 [@ EXCEPT !.pc = "await_recompute", !.request_id = r,
                           !.corrections = corrections,
                           !.items = pending_reviews[r].items]]
  /\ UNCHANGED <<call, settings, ollama_up, mcp_vars, menu_items, api_response,
                 pending_reviews>>

\* review.py clear_pending_review
ClearPendingReview(r) ==
  [k \in (DOMAIN pending_reviews) \ {r} |-> pending_reviews[k]]

\* submit_review from the recompute result on: review.py 133-149
RecomputeReturn(h) ==
  /\ handler[h].pc = "await_recompute"
  /\ LET result == RecomputeWithCorrections(handler[h].items, handler[h].corrections)
     IN handler' = [handler EXCEPT ![h] =
          [@ EXCEPT !.pc = "done", !.result = "ok",
                    !.response =
                      [vegetarian_items |->
                         ClassifiedList(result.vegetarian_items),
                       total_sum |-> result.total_sum,
                       applied_corrections |-> Len(handler[h].corrections)]]]
  /\ pending_reviews' = ClearPendingReview(handler[h].request_id)
  /\ UNCHANGED <<call, settings, ollama_up, mcp_vars, menu_items, api_response,
                 feedback_log>>

\* the recompute call raises (raise_for_status, timeout): submit_review ends
\* with the exception, before clear_pending_review
RecomputeRaises(h) ==
  /\ handler[h].pc = "await_recompute"
  /\ handler' = [handler EXCEPT ![h] = [@ EXCEPT !.pc = "done", !.result = "error"]]
  /\ UNCHANGED <<call, settings, ollama_up, mcp_vars, menu_items, api_response,
                 pending_reviews, feedback_log>>

InitReview ==
  /\ settings = DefaultSettings
  /\ ollama_up = TRUE
  /\ MCPInit
  /\ APIInit
  /\ call = NoCall

NextReview ==
  \/ Lifespan
  \/ \E r \in RequestIds, items \in ReviewMenus : ProcessMenu(r, items)
  \/ BatchStep
  \/ ExecuteReturn
  \/ ClassifyAndCalculate
  \/ \E r \in RequestIds : ProcessMenuReturn(r)
  \/ \E r \in RequestIds : StorePendingReview(r)
  \/ \E h \in Handlers, r \in RequestIds, corrections \in Corrections :
       SubmitReview(h, r, corrections)
  \/ \E h \in Handlers : RecomputeReturn(h)
  \/ \E h \in Handlers : RecomputeRaises(h)

SpecReview == InitReview /\ [][NextReview]_vars

(***************************************************************************)
(* Direct calls of the classifier's and the calculator's functions, as the *)
(* unit tests and the other tools make them: the arguments are drawn at    *)
(* the start, the call computes the result.                                *)
(***************************************************************************)
\* longest dish name of a keyword matcher call, in words
MaxWords == 3

\* A word of a dish name, with what it holds by construction: a vegetarian
\* marker, a positive keyword as a whole token, a negative keyword as a whole
\* token, a negative keyword inside a longer alphanumeric token.
Word(text, marker, positive, negative, inside) ==
  [text |-> text, marker |-> marker, positive |-> positive,
   negative |-> negative, inside |-> inside]

KeywordWords ==
  {Word(<<"(", "v", ")">>, TRUE, FALSE, FALSE, FALSE),
   Word(Tofu, FALSE, TRUE, FALSE, FALSE),
   Word(Ham, FALSE, FALSE, TRUE, FALSE),
   Word(<<"t", "u", "n", "a">>, FALSE, FALSE, TRUE, FALSE),
   Word(<<"H", "a", "m", "[", "V", "]">>, TRUE, FALSE, TRUE, FALSE),
   Word(<<"p", "e", "a">>, FALSE, FALSE, FALSE, FALSE),
   Word(<<"h", "a", "m", "m", "o", "c", "k">>, FALSE, FALSE, FALSE, TRUE),
   Word(<<"t", "u", "n", "a", "s", "-", "f", "r", "e", "e">>, FALSE, FALSE, FALSE, TRUE)}

RECURSIVE JoinWords(_)
\* the words of a dish name, separated by blanks
JoinWords(words) ==
  IF Len(words) = 1 THEN words[1].text
  ELSE words[1].text \o <<" ">> \o JoinWords(Tail(words))

KeywordCalls ==
  {[op |-> "keyword_classification", pc |-> "called", words |-> ws,
    dish_name |-> JoinWords(ws)] : ws \in SeqsUpTo(KeywordWords, MaxWords) \ {<<>>}}

\* a call of LLMClassifier._keyword_classification
KeywordClassificationCall ==
  /\ call.op = "keyword_classification"
  /\ call.pc = "called"
  /\ call' = [op |-> call.op, pc |-> "returned", words |-> call.words,
              dish_name |-> call.dish_name,
              result |-> KeywordClassification(call.dish_name)]
  /\ UNCHANGED <<settings, ollama_up, mcp_vars, api_vars>>

\* longest list passed to a calculator call
MaxCalcItems == 3

\* items as the calculator can get them: a price below, at and above zero,
\* no price, and a price that is not a number
CalcItems ==
  {[name |-> Dal, price |-> p] : p \in {-250, 0, 1, 500}}
  \cup {[name |-> Dal], [name |-> Dal, price_text |-> "n/a"]}

CalculatorCalls ==
  {[op |-> "execute", pc |-> "called", vegetarian_items |-> l] :
     l \in SeqsUpTo(CalcItems, MaxCalcItems)}

\* a call of CalculatorTool.execute
CalculatorExecuteCall ==
  /\ call.op = "execute"
  /\ call.pc = "called"
  /\ call' = [op |-> call.op, pc |-> "returned",
              vegetarian_items |-> call.vegetarian_items,
              result |-> CalculatorExecute(call.vegetarian_items)]
  /\ UNCHANGED <<settings, ollama_up, mcp_vars, api_vars>>

\* longest item list and longest correction list of a recompute call
MaxRecomputeItems == 2
MaxRecomputeCorrections == 2

\* classified items as the recompute tool can get them: with a price below
\* or above zero, labelled vegetarian, labelled non-vegetarian or unlabelled
RecomputeInputItems ==
  {[name |-> n, price |-> p, is_vegetarian |-> v] :
     n \in {Tofu, Soup}, p \in {-200, 300}, v \in {"true", "false"}}
  \cup {[name |-> n, price |-> p] : n \in {Tofu, Soup}, p \in {-200, 300}}

\* corrections name a dish in the menu's spelling or in another case
RecomputeCorrections ==
  {[name |-> n, is_vegetarian |-> v] : n \in {Tofu, Lower(Soup)}, v \in BOOLEAN}

RecomputeCalls ==
  {[op |-> "recompute_with_corrections", pc |-> "called", items |-> l,
    corrections |-> c] :
     l \in SeqsUpTo(RecomputeInputItems, MaxRecomputeItems),
     c \in SeqsUpTo(RecomputeCorrections, MaxRecomputeCorrections)}

\* a call of CalculatorTool.recompute_with_corrections
RecomputeCall ==
  /\ call.op = "recompute_with_corrections"
  /\ call.pc = "called"
  /\ call' = [op |-> call.op, pc |-> "returned", items |-> call.items,
              corrections |-> call.corrections,
              result |-> RecomputeWithCorrections(call.items, call.corrections)]
  /\ UNCHANGED <<settings, ollama_up, mcp_vars, api_vars>>

\* a second call with the same corrections, on the same items or on the
\* vegetarian_items the first call returned
RecomputeAgain ==
  /\ call.op = "recompute_with_corrections"
  /\ call.pc = "returned"
  /\ \E on \in {"items", "vegetarian_items"} :
       call' = [op |-> call.op, pc |-> "reapplied", items |-> call.items,
                corrections |-> call.corrections, result |-> call.result,
                on |-> on,
                again |-> RecomputeWithCorrections(
                            IF on = "items" THEN call.items
                            ELSE call.result.vegetarian_items,
                            call.corrections)]
  /\ UNCHANGED <<settings, ollama_up, mcp_vars, api_vars>>

\* what _get_llm() yields in a direct call: a provider, or the error of
\* get_llm_provider
CallProviders == {"ollama", "raise"}

\* JSON answers whose confidence lies outside [0, 1]
WildAnswers == {Answer("true", "num", 1500), Answer("false", "num", -800)}

ClassifyOutcomes ==
  SingleOutcomes \cup {[kind |-> "json", answer |-> a] : a \in WildAnswers}

ClassifyCalls ==
  {[op |-> "classify", pc |-> "called", dish_name |-> n, provider |-> p,
    outcome |-> o] : n \in Names, p \in CallProviders, o \in ClassifyOutcomes}

\* a call of LLMClassifier.classify, with the result of each tier it consults
ClassifyCall ==
  /\ call.op = "classify"
  /\ call.pc = "called"
  /\ LET reached == ReachesLLM(call.dish_name, settings.confidence_threshold)
         llm_result == LLMClassification(call.provider, call.outcome)
     IN call' = [op |-> call.op, pc |-> "returned", dish_name |-> call.dish_name,
                 provider |-> call.provider, outcome |-> call.outcome,
                 reached |-> reached,
                 keyword_result |-> KeywordClassification(call.dish_name),
                 rag_result |-> AnalyzeRagEvidence(RetrieveEvidence(call.dish_name)),
                 llm_result |-> IF reached THEN llm_result ELSE NullTier("llm"),
                 fallback_chain |-> FallbackChain(call.dish_name,
                                      settings.confidence_threshold, llm_result),
                 result |-> Classify(call.dish_name, settings.confidence_threshold,
                                     llm_result)]
  /\ UNCHANGED <<settings, ollama_up, mcp_vars, api_vars>>

\* the needs_llm entries the first pass makes of menu items
BatchCallItems ==
  {NeedsLLM([name |-> n, price |-> 500, source_image |-> 1],
            AnalyzeRagEvidence(RetrieveEvidence(n))) : n \in {Dal, Soup, PeaSoup}}

BatchCallOutcomes(batch) ==
  BatchOutcomes(batch)
  \cup {[kind |-> "json", data |-> <<BatchObject(batch[1].name, a)>>] :
          a \in WildAnswers}

BatchCalls ==
  UNION {{[op |-> "classify_batch_llm", pc |-> "called", batch |-> b,
           provider |-> p, outcome |-> o] :
            p \in CallProviders, o \in BatchCallOutcomes(b)} :
         b \in {<<x>> : x \in BatchCallItems}
               \cup {<<x, y>> : x \in BatchCallItems, y \in BatchCallItems}}

\* a call of LLMClassifier.classify_batch_llm
ClassifyBatchLLMCall ==
  /\ call.op = "classify_batch_llm"
  /\ call.pc = "called"
  /\ call' = [op |-> call.op, pc |-> "returned", batch |-> call.batch,
              provider |-> call.provider, outcome |-> call.outcome,
              result |-> ClassifyBatchLLM(call.provider, call.outcome, call.batch)]
  /\ UNCHANGED <<settings, ollama_up, mcp_vars, api_vars>>

\* the inner loop of _execute_with_batch on the result of the batch call
BatchBucketing ==
  /\ call.op = "classify_batch_llm"
  /\ call.pc = "returned"
  /\ call' = [op |-> call.op, pc |-> "bucketed", batch |-> call.batch,
              provider |-> call.provider, outcome |-> call.outcome,
              result |-> call.result,
              buckets |-> BatchItems(call.batch, 1, EmptyBuckets, call.result,
                                     settings.hitl_threshold)]
  /\ UNCHANGED <<settings, ollama_up, mcp_vars, api_vars>>

\* the confidences of the tiers handed to _combine_results directly
ConfidenceGrid == {0, 300, 500, 1000}

Tiers(labels, method) ==
  [is_vegetarian : labels, confidence : ConfidenceGrid, method : {method}]

\* what _keyword_classification can return
KeywordTiers ==
  {NullTier("keyword")}
  \cup [is_vegetarian : {"true", "false"}, confidence : {KeywordConfidence},
        method : {"keyword"}]

CombineCalls ==
  {[op |-> "combine", pc |-> "called", keyword |-> k, rag |-> r, llm |-> l] :
     k \in KeywordTiers,
     r \in Tiers({"true", "false"}, "rag") \cup {NullTier("rag")},
     l \in Tiers({"true", "false", "null"}, "llm")}

\* a call of LLMClassifier._combine_results
CombineCall ==
  /\ call.op = "combine"
  /\ call.pc = "called"
  /\ call' = [op |-> call.op, pc |-> "returned", keyword |-> call.keyword,
              rag |-> call.rag, llm |-> call.llm,
              result |-> CombineResults(call.keyword, call.rag, call.llm)]
  /\ UNCHANGED <<settings, ollama_up, mcp_vars, api_vars>>

\* the same call again, with the same label and a higher confidence of the
\* LLM tier
CombineRaised ==
  /\ call.op = "combine"
  /\ call.pc = "returned"
  /\ \E c \in ConfidenceGrid :
       /\ c > call.llm.confidence
       /\ LET raised_llm == [call.llm EXCEPT !.confidence = c]
          IN call' = [op |-> call.op, pc |-> "raised", keyword |-> call.keyword,
                      rag |-> call.rag, llm |-> call.llm, result |-> call.result,
                      raised_llm |-> raised_llm,
                      raised |-> CombineResults(call.keyword, call.rag, raised_llm)]
  /\ UNCHANGED <<settings, ollama_up, mcp_vars, api_vars>>

\* len(openai_api_key)
KeyLengths == {0, 10, 11, 20}

ProviderCalls ==
  {[op |-> "get_llm_provider", pc |-> "called", llm_provider |-> lp,
    probe1 |-> p1, key_len |-> n, probe2 |-> p2] :
     lp \in {"ollama", "openai"}, p1 \in BOOLEAN, n \in KeyLengths,
     p2 \in BOOLEAN}

\* a call of get_llm_provider
GetLLMProviderCall ==
  /\ call.op = "get_llm_provider"
  /\ call.pc = "called"
  /\ call' = [call EXCEPT !.pc = "returned"]
             @@ [result |-> GetLLMProvider(call.llm_provider, call.probe1,
                                           call.key_len, call.probe2)]
  /\ UNCHANGED <<settings, ollama_up, mcp_vars, api_vars>>

MaxHits == 3

\* hits of the vector store: relevance below, at and above the 0.3 floor,
\* metadata with and without an is_vegetarian label
RagHits ==
  {Hit(rel, veg, "dish") : rel \in {200, 300, 450, 600}, veg \in {"true", "false"}}
  \cup {Hit(600, "null", "dish")}

AnalyzeCalls ==
  {[op |-> "analyze_rag_evidence", pc |-> "called", evidence |-> e] :
     e \in SeqsUpTo(RagHits, MaxHits)}

\* a call of LLMClassifier._analyze_rag_evidence
AnalyzeRagEvidenceCall ==
  /\ call.op = "analyze_rag_evidence"
  /\ call.pc = "called"
  /\ call' = [op |-> call.op, pc |-> "returned", evidence |-> call.evidence,
              result |-> AnalyzeRagEvidence(call.evidence)]
  /\ UNCHANGED <<settings, ollama_up, mcp_vars, api_vars>>

MaxStrategyItems == 2

\* what the LLM tier says about a dish, whichever strategy asks
LLMOpinions ==
  {[is_vegetarian |-> "true", confidence |-> 800],
   [is_vegetarian |-> "false", confidence |-> 800],
   [is_vegetarian |-> "true", confidence |-> 300],
   [is_vegetarian |-> "null", confidence |-> 0]}

TierOf(opinion, method) ==
  [is_vegetarian |-> opinion.is_vegetarian, confidence |-> opinion.confidence,
   method |-> method]

StrategyCalls ==
  UNION {{[op |-> "strategies", pc |-> "called", items |-> m,
           confidence_threshold |-> t[1], hitl_threshold |-> t[2],
           llm_of |-> f] :
            t \in ThresholdConfigs,
            f \in [{m[i].name : i \in 1..Len(m)} -> LLMOpinions]} :
         m \in SeqsUpTo([name : Names, price : {500}, source_image : {1}],
                        MaxStrategyItems) \ {<<>>}}

RECURSIVE SequentialItems(_, _, _, _, _, _)
\* the loop of ClassifierTool._execute_sequential, from item i on, with
\* llm_of[name] as the answer of the LLM tier for the dish
SequentialItems(items, i, acc, confidence_threshold, hitl_threshold, llm_of) ==
  IF i > Len(items) THEN acc
  ELSE SequentialItems(items, i + 1,
         SequentialItem(acc, items[i],
                        Classify(items[i].name, confidence_threshold,
                                 TierOf(llm_of[items[i].name], "llm")),
                        hitl_threshold),
         confidence_threshold, hitl_threshold, llm_of)

\* ClassifierTool._execute_with_batch, with llm_of[name] as the entry of the
\* dish in the result of classify_batch_llm
WithBatch(items, confidence_threshold, hitl_threshold, llm_of) ==
  LET first == FirstPass(items, 1, EmptyBuckets, confidence_threshold)
      llm_results == [n \in BatchNames(first.needs_llm) |->
                        TierOf(llm_of[n], "llm_batch")]
  IN BatchItems(first.needs_llm, 1, first, llm_results, hitl_threshold)

\* the same request served by both strategies
StrategiesCall ==
  /\ call.op = "strategies"
  /\ call.pc = "called"
  /\ call' = [call EXCEPT !.pc = "returned"]
             @@ [sequential |-> SequentialItems(call.items, 1, EmptyBuckets,
                                  call.confidence_threshold, call.hitl_threshold,
                                  call.llm_of),
                 batch |-> WithBatch(call.items, call.confidence_threshold,
                                     call.hitl_threshold, call.llm_of)]
  /\ UNCHANGED <<settings, ollama_up, mcp_vars, api_vars>>

CallInputs ==
  StrategyCalls \cup KeywordCalls \cup CalculatorCalls \cup RecomputeCalls \cup ClassifyCalls
    \cup BatchCalls \cup CombineCalls \cup ProviderCalls \cup AnalyzeCalls

InitCalls ==
  /\ settings = DefaultSettings
  /\ ollama_up = TRUE
  /\ MCPInit
  /\ APIInit
  /\ call \in CallInputs

NextCalls ==
  \/ KeywordClassificationCall
  \/ CalculatorExecuteCall
  \/ RecomputeCall
  \/ RecomputeAgain
  \/ ClassifyCall
  \/ ClassifyBatchLLMCall
  \/ BatchBucketing
  \/ CombineCall
  \/ CombineRaised
  \/ GetLLMProviderCall
  \/ AnalyzeRagEvidenceCall
  \/ StrategiesCall

SpecCalls == InitCalls /\ [][NextCalls]_vars

(***************************************************************************)
(* Properties of the Classifier Tool and of classify-and-calculate.        *)
(***************************************************************************)
Classified == mcp_pc \in {"classified", "responded"}

SameItem(a, b) ==
  a.name = b.name /\ a.price = b.price /\ a.source_image = b.source_image

\* how often the item v occurs in the list
Occurrences(list, v) == Cardinality({i \in 1..Len(list) : SameItem(list[i], v)})

\* the entry of all_items written together with a bucket entry
SameEntry(e, b) ==
  SameItem(e, b) /\ e.confidence = b.confidence /\ e.method = b.method

\* C1: once the tool has classified a request, all_items is as long as the
\* input and its i-th entry is the i-th input item, under both strategies.
C1_OrderPreserved ==
  Classified =>
    /\ Len(all_items) = Len(request_items)
    /\ \A i \in 1..Len(request_items) : SameItem(all_items[i], request_items[i])

\* C2: every item of the confident-vegetarian bucket was classified
\* vegetarian with a confidence of at least hitl_threshold, and no item with
\* a confidence below hitl_threshold is in a confident bucket.
C2_TrustedSum ==
  /\ \A i \in 1..Len(vegetarian_items) :
       /\ vegetarian_items[i].confidence >= settings.hitl_threshold
       /\ \E k \in 1..Len(all_items) :
            /\ SameEntry(all_items[k], vegetarian_items[i])
            /\ all_items[k].is_vegetarian = "true"
  /\ \A i \in 1..Len(non_vegetarian_items) :
       non_vegetarian_items[i].confidence >= settings.hitl_threshold

NoProviderAvailable ==
  GetLLMProvider(settings.llm_provider, ollama_up, settings.openai_key_len,
                 ollama_up) = "raise"

\* C7: with no LLM provider to select, the classification service never gets
\* ready and serves no request.
C7_NoProviderIsFatal == NoProviderAvailable => mcp_pc = "down"

\* C8: every input item is in exactly one of the three buckets: the buckets
\* hold as many items as the input, and each item as often as the input does.
C8_BucketingComplete ==
  Classified =>
    /\ Len(vegetarian_items) + Len(non_vegetarian_items) + Len(uncertain_items)
         = Len(request_items)
    /\ \A v \in Items :
         Occurrences(vegetarian_items, v) + Occurrences(non_vegetarian_items, v)
           + Occurrences(uncertain_items, v) = Occurrences(request_items, v)

\* a request with a repeated name, served by the batch strategy with both
\* items sent to the LLM, one of which came back without an opinion
C8_Witness ==
  /\ mcp_pc = "classified"
  /\ settings.llm_batch_enabled
  /\ Len(request_items) = 2
  /\ request_items[1].name = request_items[2].name
  /\ Len(needs_llm) = 2
  /\ uncertain_items # <<>>
  /\ vegetarian_items # <<>>

\* the prices above zero of the list, added up over its positions
PositiveTotal(list) ==
  LET RECURSIVE UpTo(_)
      UpTo(n) == IF n = 0 THEN 0
                 ELSE UpTo(n - 1) + (IF list[n].price > 0 THEN list[n].price ELSE 0)
  IN UpTo(Len(list))

\* C9: the response is needs_review exactly when the uncertain bucket is not
\* empty, and then partial_sum is the total of the confident vegetarian
\* items; otherwise it is success and total_sum is that total.
C9_HITLConsistency ==
  mcp_pc = "responded" =>
    /\ mcp_response.status \in {"needs_review", "success"}
    /\ mcp_response.status = "needs_review" <=> uncertain_items # <<>>
    /\ mcp_response.status = "needs_review" =>
         /\ mcp_response.partial_sum = PositiveTotal(vegetarian_items)
         /\ mcp_response.confident_items = vegetarian_items
         /\ mcp_response.uncertain_items = uncertain_items
    /\ mcp_response.status = "success" =>
         /\ mcp_response.total_sum = PositiveTotal(vegetarian_items)
         /\ mcp_response.vegetarian_items = vegetarian_items

\* a needs_review response with a partial sum above zero that leaves out a
\* priced uncertain item
C9_Witness ==
  /\ mcp_pc = "responded"
  /\ mcp_response.status = "needs_review"
  /\ mcp_response.partial_sum > 0
  /\ \E i \in 1..Len(uncertain_items) : uncertain_items[i].price > 0

Deferred(e) ==
  /\ settings.llm_batch_enabled
  /\ e.method = "rag"
  /\ \E k \in 1..Len(needs_llm) : SameItem(needs_llm[k], e)

\* C10: an item classified null is in the uncertain bucket with a null
\* suggestion, and every item of a confident bucket was classified with
\* that bucket's label, never null.  (An entry the batch strategy's first
\* pass lists before it defers the item to the LLM is not the item's final
\* classification.)
C10_NullNeverFalse ==
  Classified =>
    /\ \A k \in 1..Len(all_items) :
         (all_items[k].is_vegetarian = "null" /\ ~Deferred(all_items[k])) =>
           \E i \in 1..Len(uncertain_items) :
             /\ SameEntry(all_items[k], uncertain_items[i])
             /\ uncertain_items[i].suggested_classification = "null"
    /\ \A i \in 1..Len(non_vegetarian_items) :
         \E k \in 1..Len(all_items) :
           /\ SameEntry(all_items[k], non_vegetarian_items[i])
           /\ all_items[k].is_vegetarian = "false"
    /\ \A i \in 1..Len(uncertain_items) :
         \E k \in 1..Len(all_items) :
           /\ SameEntry(all_items[k], uncertain_items[i])
           /\ all_items[k].is_vegetarian = uncertain_items[i].suggested_classification

\* the batch strategy has put an item no tier had an opinion on into the
\* uncertain bucket, next to a confident non-vegetarian item
C10_Witness ==
  /\ mcp_pc = "classified"
  /\ settings.llm_batch_enabled
  /\ non_vegetarian_items # <<>>
  /\ \E i \in 1..Len(uncertain_items) :
       /\ uncertain_items[i].suggested_classification = "null"
       /\ uncertain_items[i].method = "llm_batch"

(***************************************************************************)
(* Properties of the review store and of the correction entry point.       *)
(***************************************************************************)
Submitted(r) == \E h \in Handlers : handler[h].request_id = r

\* C3: a request answered needs_review has a review record, as long as no
\* correction for it was submitted.
C3_ReviewRecordCreated ==
  \A r \in RequestIds :
    (api_response[r].status = "needs_review" /\ ~Submitted(r)) =>
      r \in DOMAIN pending_reviews

\* the correction list confirms, as vegetarian, the one uncertain item of the
\* needs_review response of request r that bears its name
ConfirmsUncertain(r, corrections) ==
  /\ r \in RequestIds
  /\ api_response[r].status = "needs_review"
  /\ Len(corrections) = 1
  /\ corrections[1].is_vegetarian
  /\ Cardinality({i \in 1..Len(menu_items[r]) :
                    Lower(menu_items[r][i].name) = Lower(corrections[1].name)}) = 1
  /\ \E i \in 1..Len(api_response[r].uncertain_items) :
       Lower(api_response[r].uncertain_items[i].name) = Lower(corrections[1].name)

ConfirmedPrice(r, corrections) ==
  LET i == CHOOSE i \in 1..Len(api_response[r].uncertain_items) :
             Lower(api_response[r].uncertain_items[i].name) = Lower(corrections[1].name)
  IN api_response[r].uncertain_items[i].price

\* the correction response lists the confirmed item as human verified,
\* keeps the confident items and adds the item's price to the partial sum
RoundTrip(response, r, corrections) ==
  /\ response.total_sum = api_response[r].partial_sum + ConfirmedPrice(r, corrections)
  /\ \E i \in 1..Len(response.vegetarian_items) :
       LET item == response.vegetarian_items[i] IN
       /\ Lower(item.name) = Lower(corrections[1].name)
       /\ "confidence" \in DOMAIN item /\ item.confidence = 1000
       /\ "reasoning" \in DOMAIN item /\ item.reasoning = "Human verified"
  /\ \A k \in 1..Len(api_response[r].confident_items) :
       \E i \in 1..Len(response.vegetarian_items) :
         response.vegetarian_items[i].name = api_response[r].confident_items[k].name

\* C4: a correction submitted after a needs_review response, confirming one
\* of its uncertain items, is accepted, and its response is the round trip:
\* the item human verified, the confident items kept, total = partial + price.
C4_CorrectionRoundTrip ==
  [][\A h \in Handlers :
       /\ (/\ handler[h].pc = "idle"
           /\ handler'[h].pc # "idle"
           /\ ConfirmsUncertain(handler'[h].request_id, handler'[h].corrections))
            => handler'[h].result # "not_found"
       /\ (/\ handler[h].pc = "await_recompute"
           /\ handler'[h].result = "ok"
           /\ ConfirmsUncertain(handler[h].request_id, handler[h].corrections))
            => RoundTrip(handler'[h].response, handler[h].request_id,
                         handler[h].corrections)]_vars

Succeeded(r) ==
  {h \in Handlers : handler[h].request_id = r /\ handler[h].result = "ok"}

LoggedFor(r) ==
  Cardinality({i \in 1..Len(feedback_log) : feedback_log[i].request_id = r})

\* C5: of the correction submissions for one request id (none of which met a
\* failing recompute call) at most one succeeds, and the feedback log holds
\* the corrections of one submission at most.
C5_AtMostOnce ==
  \A r \in RequestIds :
    (\A h \in Handlers : handler[h].result # "error") =>
      /\ Cardinality(Succeeded(r)) <= 1
      /\ LoggedFor(r) <= MaxCorrections

\* C6: a correction submitted for a request id without a pending review
\* record ends with not-found in that step (no recompute call is awaited),
\* and the step leaves the review store and the feedback log as they were;
\* no other submission ends with not-found.
C6_MissingReview ==
  [][\A h \in Handlers :
       (handler[h].pc = "idle" /\ handler'[h].pc # "idle") =>
         IF handler'[h].request_id \notin DOMAIN pending_reviews
           THEN /\ handler'[h].pc = "done"
                /\ handler'[h].result = "not_found"
                /\ handler'[h].response = NoResponse
                /\ pending_reviews' = pending_reviews
                /\ feedback_log' = feedback_log
           ELSE handler'[h].result # "not_found"]_vars

\* a submission carrying corrections was rejected as not-found while the
\* feedback log holds the records of an earlier, accepted submission
C6_Witness ==
  \E h \in Handlers :
    /\ handler[h].result = "not_found"
    /\ handler[h].corrections # <<>>
    /\ feedback_log # <<>>

(***************************************************************************)
(* Properties of the keyword tier inside the classifier.                   *)
(***************************************************************************)
KeywordLabelled(name) == KeywordClassification(name).is_vegetarian # "null"

\* every all_items entry of a keyword-labelled name carries the keyword
\* tier's label, confidence 0.95 and method keyword, and no such item waits
\* for the LLM
KeywordFinal ==
  /\ \A k \in 1..Len(all_items) :
       KeywordLabelled(all_items[k].name) =>
         /\ all_items[k].is_vegetarian
              = KeywordClassification(all_items[k].name).is_vegetarian
         /\ all_items[k].confidence = KeywordConfidence
         /\ all_items[k].method = "keyword"
  /\ \A k \in 1..Len(needs_llm) : ~KeywordLabelled(needs_llm[k].name)

\* C11: an item whose name the keyword matcher labels is classified with
\* that label, confidence 0.95 and method keyword under both strategies,
\* whatever the LLM would answer; classifying it makes no LLM call (it is
\* never deferred to an LLM batch and a sequential step on it leaves the
\* provider unselected).
C11_KeywordAuthoritative ==
  [][/\ mcp_pc = "classified" => KeywordFinal
     /\ (/\ mcp_pc = "sequential"
         /\ pos' = pos + 1
         /\ KeywordLabelled(request_items[pos].name)) => llm' = llm]_vars

\* the sequential strategy has classified a keyword-labelled non-vegetarian
\* item next to an item that went through the combination, without the
\* former having selected a provider
C11_Witness ==
  /\ mcp_pc = "classified"
  /\ ~settings.llm_batch_enabled
  /\ Len(all_items) = 2
  /\ KeywordClassification(all_items[1].name).is_vegetarian = "false"
  /\ all_items[1].method = "keyword"
  /\ all_items[2].method = "combined"
  /\ all_items[2].is_vegetarian = "true"

(***************************************************************************)
(* Properties of the keyword matcher.                                      *)
(***************************************************************************)
KeywordReturned == call.op = "keyword_classification" /\ call.pc = "returned"

SomeWord(words, flag) == \E i \in 1..Len(words) : words[i][flag]

\* C12: the first matching rule in the order marker, positive keyword,
\* negative keyword decides with confidence 0.95 (so a name with a marker and
\* a negative keyword is vegetarian), and a name no rule matches gets
\* {null, 0.0}.
C12_KeywordPrecedence ==
  KeywordReturned =>
    /\ call.result.method = "keyword"
    /\ IF SomeWord(call.words, "marker") \/ SomeWord(call.words, "positive")
         THEN call.result.is_vegetarian = "true"
              /\ call.result.confidence = KeywordConfidence
       ELSE IF SomeWord(call.words, "negative")
         THEN call.result.is_vegetarian = "false"
              /\ call.result.confidence = KeywordConfidence
       ELSE call.result.is_vegetarian = "null" /\ call.result.confidence = 0

\* the matcher has answered vegetarian for a name that holds a marker and,
\* in another word before it, a negative keyword
C12_Witness ==
  /\ KeywordReturned
  /\ Len(call.words) = 2
  /\ call.words[1].negative /\ ~call.words[1].marker
  /\ call.words[2].marker
  /\ call.result.is_vegetarian = "true"

\* C13: a name that holds negative keywords only inside longer alphanumeric
\* tokens is not classified non-vegetarian.
C13_WordBoundary ==
  (/\ KeywordReturned
   /\ SomeWord(call.words, "inside")
   /\ ~SomeWord(call.words, "negative")) => call.result.is_vegetarian # "false"

\* the matcher has found no match in "hammock tunas-free"
C13_Witness ==
  /\ KeywordReturned
  /\ Len(call.words) = 2
  /\ call.words[1].inside /\ call.words[2].inside
  /\ call.words[1] # call.words[2]
  /\ call.result.is_vegetarian = "null"

(***************************************************************************)
(* Properties of the calculator and of the correction path.                *)
(***************************************************************************)
CalculatorReturned == call.op = "execute" /\ call.pc = "returned"

\* the positions of the list that hold a number above zero as price
PositivePrices(list) ==
  {i \in 1..Len(list) :
     /\ "price" \in DOMAIN list[i]
     /\ "price_text" \notin DOMAIN list[i]
     /\ list[i].price > 0}

RECURSIVE SumAt(_, _)
\* the prices at the positions S of the list, added up
SumAt(list, S) ==
  IF S = {} THEN 0
  ELSE LET i == CHOOSE i \in S : TRUE IN list[i].price + SumAt(list, S \ {i})

\* C14: total_sum is the sum of the prices that are numbers above zero and
\* item_count is how many there are; a zero, negative, missing or
\* non-numeric price adds nothing, and the empty list gives 0 and 0.
C14_CalculatorTotal ==
  CalculatorReturned =>
    /\ call.result.total_sum
         = SumAt(call.vegetarian_items, PositivePrices(call.vegetarian_items))
    /\ call.result.item_count
         = Cardinality(PositivePrices(call.vegetarian_items))
    /\ call.vegetarian_items = <<>> =>
         call.result.total_sum = 0 /\ call.result.item_count = 0

\* the calculator has summed two prices of a list that also holds a
\* negative price
C14_Witness ==
  /\ CalculatorReturned
  /\ Len(call.vegetarian_items) = 3
  /\ Cardinality(PositivePrices(call.vegetarian_items)) = 2
  /\ \E i \in 1..3 : "price" \in DOMAIN call.vegetarian_items[i]
                      /\ call.vegetarian_items[i].price < 0
  /\ call.result.total_sum = 501

RecomputeReturned ==
  call.op = "recompute_with_corrections" /\ call.pc \in {"returned", "reapplied"}

\* C15: the total of a recompute call is what the calculator gives for the
\* vegetarian_items the call returns.
C15_RecomputeSumsLikeTotal ==
  RecomputeReturned =>
    call.result.total_sum = CalculatorExecute(call.result.vegetarian_items).total_sum

\* the corrections that name the item, whatever the case of the letters
CorrectionsOf(item, corrections) ==
  {j \in 1..Len(corrections) : Lower(corrections[j].name) = Lower(item.name)}

SetMax(S) == CHOOSE x \in S : \A y \in S : x >= y

\* the label the correction map holds for the item: the one of the last
\* correction that names it
CorrectedLabel(item, corrections) ==
  corrections[SetMax(CorrectionsOf(item, corrections))].is_vegetarian

RECURSIVE Overridden(_, _)
\* the items in their order, each corrected item kept as human verified iff
\* its corrected label is true, each other item kept as it is iff it was
\* labelled vegetarian
Overridden(items, corrections) ==
  IF items = <<>> THEN <<>>
  ELSE LET item == items[Len(items)]
           front == Overridden(SubSeq(items, 1, Len(items) - 1), corrections)
       IN IF CorrectionsOf(item, corrections) # {}
            THEN IF CorrectedLabel(item, corrections)
                   THEN Append(front, [name |-> item.name, price |-> item.price,
                                       confidence |-> 1000,
                                       reasoning |-> "Human verified"])
                 ELSE front
          ELSE IF "is_vegetarian" \in DOMAIN item /\ item.is_vegetarian = "true"
            THEN Append(front, item)
          ELSE front

\* C16: names are matched without regard to case; a corrected item is in
\* vegetarian_items iff its corrected label is true, then with confidence
\* 1.0 and reasoning "Human verified"; an item without a correction is there
\* iff it was labelled vegetarian; the items keep their input order.
C16_CorrectionOverride ==
  RecomputeReturned =>
    call.result.vegetarian_items = Overridden(call.items, call.corrections)

\* a call has dropped a vegetarian item corrected to false under another
\* spelling of its name and kept, human verified, an item labelled
\* non-vegetarian that was corrected to true
C16_Witness ==
  /\ RecomputeReturned
  /\ Len(call.items) = 2
  /\ call.items[1].name = Soup /\ call.items[2].name = Tofu
  /\ "is_vegetarian" \in DOMAIN call.items[1] /\ call.items[1].is_vegetarian = "true"
  /\ "is_vegetarian" \in DOMAIN call.items[2] /\ call.items[2].is_vegetarian = "false"
  /\ call.corrections = <<[name |-> Lower(Soup), is_vegetarian |-> FALSE],
                          [name |-> Tofu, is_vegetarian |-> TRUE]>>
  /\ Len(call.result.vegetarian_items) = 1
  /\ call.result.vegetarian_items[1].name = Tofu
  /\ call.result.vegetarian_items[1].confidence = 1000

\* C17: a second call with the same corrections, on the same items or on
\* the first call's vegetarian_items, returns the first call's vegetarian
\* list and total.
C17_CorrectionIdempotent ==
  (call.op = "recompute_with_corrections" /\ call.pc = "reapplied") =>
    /\ call.again.vegetarian_items = call.result.vegetarian_items
    /\ call.again.total_sum = call.result.total_sum

\* the corrections were applied again to a first result that holds a human
\* verified item and an item kept for its prior label
C17_Witness ==
  /\ call.op = "recompute_with_corrections"
  /\ call.pc = "reapplied"
  /\ call.on = "vegetarian_items"
  /\ Len(call.result.vegetarian_items) = 2
  /\ \E i \in 1..2 : "reasoning" \in DOMAIN call.result.vegetarian_items[i]
  /\ \E i \in 1..2 : "is_vegetarian" \in DOMAIN call.result.vegetarian_items[i]

(***************************************************************************)
(* Properties of the LLM tier and of the confidences.                      *)
(***************************************************************************)
\* the LLM call of a classify call failed: no provider, a transport or HTTP
\* error, a response without JSON, or a confidence float() rejects
LLMFailed ==
  \/ call.provider = "raise"
  \/ call.outcome.kind \in {"error", "unparseable"}
  \/ call.outcome.kind = "json" /\ call.outcome.answer.conf_kind = "bad"

\* the batch call failed as a whole: no provider, a transport or HTTP
\* error, a response without a JSON array, or a first object whose
\* confidence float() rejects
BatchFailed ==
  \/ call.provider = "raise"
  \/ call.outcome.kind \in {"error", "unparseable"}
  \/ /\ call.outcome.kind = "json"
     /\ call.outcome.data # <<>>
     /\ call.outcome.data[1].answer.conf_kind = "bad"

InOneBucket(buckets, item) ==
  Occurrences(buckets.vegetarian_items, item)
    + Occurrences(buckets.non_vegetarian_items, item)
    + Occurrences(buckets.uncertain_items, item)

\* C18: a failed LLM call leaves classify and classify_batch_llm with an
\* LLM tier of {null, 0.0} instead of an exception; the combination drops
\* it, so the item gets the label of the RAG tier (or none), and every item
\* of the batch is put in a bucket.
C18_LLMFailureContained ==
  /\ (call.op = "classify" /\ call.pc = "returned" /\ call.reached /\ LLMFailed) =>
       /\ call.llm_result.is_vegetarian = "null"
       /\ call.llm_result.confidence = 0
       /\ call.result.is_vegetarian = call.rag_result.is_vegetarian
  /\ (/\ call.op = "classify_batch_llm"
      /\ call.pc \in {"returned", "bucketed"}
      /\ BatchFailed) =>
       \A j \in 1..Len(call.batch) :
         /\ call.batch[j].name \in DOMAIN call.result
         /\ call.result[call.batch[j].name].is_vegetarian = "null"
         /\ call.result[call.batch[j].name].confidence = 0
  /\ (call.op = "classify_batch_llm" /\ call.pc = "bucketed" /\ BatchFailed) =>
       /\ Len(call.buckets.all_items) = Len(call.batch)
       /\ \A j \in 1..Len(call.batch) :
            /\ call.buckets.all_items[j].is_vegetarian
                 = call.batch[j].rag_result.is_vegetarian
            /\ InOneBucket(call.buckets, call.batch[j])
                 = Occurrences(call.batch, call.batch[j])

\* a batch call without a provider was bucketed from the RAG tier alone:
\* one item vegetarian, one uncertain
C18_Witness ==
  /\ call.op = "classify_batch_llm"
  /\ call.pc = "bucketed"
  /\ call.provider = "raise"
  /\ Len(call.batch) = 2
  /\ Len(call.buckets.vegetarian_items) = 1
  /\ Len(call.buckets.uncertain_items) = 1

InRange(confidence) == confidence >= 0 /\ confidence <= 1000

\* C20: the confidence of every tier result, of every combined result and
\* of every classified item lies in [0, 1], whatever confidence the LLM
\* response carries.
C20_ConfidenceRange ==
  /\ (call.op = "classify" /\ call.pc = "returned") =>
       /\ InRange(call.keyword_result.confidence)
       /\ InRange(call.rag_result.confidence)
       /\ InRange(call.llm_result.confidence)
       /\ InRange(call.result.confidence)
  /\ (call.op = "classify_batch_llm" /\ call.pc \in {"returned", "bucketed"}) =>
       \A n \in DOMAIN call.result : InRange(call.result[n].confidence)
  /\ (call.op = "classify_batch_llm" /\ call.pc = "bucketed") =>
       \A k \in 1..Len(call.buckets.all_items) :
         InRange(call.buckets.all_items[k].confidence)

(***************************************************************************)
(* Properties of the feedback log.                                         *)
(***************************************************************************)
\* the response submit_review builds from the items and corrections alone
ReviewResponse(items, corrections) ==
  [vegetarian_items |->
     ClassifiedList(RecomputeWithCorrections(items, corrections).vegetarian_items),
   total_sum |-> RecomputeWithCorrections(items, corrections).total_sum,
   applied_corrections |-> Len(corrections)]

\* C19: a submit_review whose feedback write added nothing to the log goes
\* on to the recompute call with the stored items and the submitted
\* corrections, and a review that succeeds returns the response computed
\* from those alone and leaves no pending record for its request.
C19_FeedbackFailureHidden ==
  [][\A h \in DOMAIN handler :
       /\ (/\ handler[h].pc = "idle"
           /\ handler'[h].pc # "idle"
           /\ handler'[h].request_id \in DOMAIN pending_reviews
           /\ feedback_log' = feedback_log) =>
            /\ handler'[h].pc = "await_recompute"
            /\ handler'[h].items = pending_reviews[handler'[h].request_id].items
       /\ (/\ handler[h].pc = "await_recompute"
           /\ handler'[h].pc = "done"
           /\ handler'[h].result = "ok") =>
            /\ handler'[h].response
                 = ReviewResponse(handler[h].items, handler[h].corrections)
            /\ handler[h].request_id \notin DOMAIN pending_reviews']_vars

\* a review with corrections succeeded although none of them reached the
\* feedback log, and its pending record is gone
C19_Witness ==
  \E h \in DOMAIN handler :
    /\ handler[h].pc = "done"
    /\ handler[h].result = "ok"
    /\ handler[h].corrections # <<>>
    /\ handler[h].response.applied_corrections = Len(handler[h].corrections)
    /\ handler[h].request_id \notin DOMAIN pending_reviews
    /\ \A i \in 1..Len(feedback_log) :
         feedback_log[i].request_id # handler[h].request_id

(***************************************************************************)
(* Properties of the weighted combination.                                 *)
(***************************************************************************)
CombineReturned == call.op = "combine" /\ call.pc \in {"returned", "raised"}

\* C21: with the keyword and the RAG tier fixed, a combined label that
\* agreed with the label of the LLM tier still agrees with it after the
\* confidence of the LLM tier was raised.
C21_CombinationMonotone ==
  (/\ call.op = "combine"
   /\ call.pc = "raised"
   /\ call.llm.is_vegetarian # "null"
   /\ call.result.is_vegetarian = call.llm.is_vegetarian) =>
     call.raised.is_vegetarian = call.llm.is_vegetarian

\* an exact tie between a vegetarian RAG tier and a non-vegetarian LLM tier,
\* combined as non-vegetarian, stayed so when the LLM confidence was raised
C21_Witness ==
  /\ call.op = "combine"
  /\ call.pc = "raised"
  /\ call.keyword.is_vegetarian = "null"
  /\ call.rag.is_vegetarian = "true"
  /\ call.llm.is_vegetarian = "false"
  /\ call.rag.confidence = call.llm.confidence
  /\ call.llm.confidence > 0
  /\ call.result.is_vegetarian = "false"
  /\ call.raised.is_vegetarian = "false"

\* conf * w of a tier that has a label, in ten-thousandths
Mass(t, w) == IF t.is_vegetarian = "null" THEN 0 ELSE t.confidence * w

\* conf * w of a tier labelled vegetarian
VegMass(t, w) == IF t.is_vegetarian = "true" THEN t.confidence * w ELSE 0

TotalMass == Mass(call.keyword, 4) + Mass(call.rag, 3) + Mass(call.llm, 3)

TotalVegMass == VegMass(call.keyword, 4) + VegMass(call.rag, 3) + VegMass(call.llm, 3)

\* C25: _combine_results ignores the tiers without a label; with none left
\* it returns {null, 0.0, combined}; with a zero denominator the first
\* labelled tier; otherwise is_vegetarian = (p > 0.5) and confidence =
\* |p - 0.5| * 2 to three decimals for p = vegetarian mass / total mass under
\* the weights 0.4 / 0.3 / 0.3.  An exact tie is non-vegetarian with
\* confidence 0, and of a RAG and an LLM tier that disagree the one with the
\* strictly higher confidence decides.
C25_WeightedCombination ==
  CombineReturned =>
    LET k == call.keyword
        r == call.rag
        l == call.llm
        labelled == {t \in {k, r, l} : t.is_vegetarian # "null"}
    IN /\ labelled = {} =>
            call.result = [is_vegetarian |-> "null", confidence |-> 0,
                           method |-> "combined"]
       /\ (labelled # {} /\ TotalMass = 0) =>
            call.result = (IF k \in labelled THEN k
                           ELSE IF r \in labelled THEN r ELSE l)
       /\ TotalMass > 0 =>
            /\ call.result.method = "combined"
            /\ call.result.is_vegetarian
                 = (IF 2 * TotalVegMass > TotalMass THEN "true" ELSE "false")
            /\ 2 * Abs(call.result.confidence * TotalMass
                       - 1000 * Abs(2 * TotalVegMass - TotalMass)) <= TotalMass
       /\ (TotalMass > 0 /\ 2 * TotalVegMass = TotalMass) =>
            /\ call.result.is_vegetarian = "false"
            /\ call.result.confidence = 0
       /\ (/\ k.is_vegetarian = "null"
           /\ {r.is_vegetarian, l.is_vegetarian} = {"true", "false"}
           /\ r.confidence # l.confidence) =>
            call.result.is_vegetarian
              = (IF r.confidence > l.confidence THEN r.is_vegetarian
                 ELSE l.is_vegetarian)

\* a vegetarian RAG tier and a non-vegetarian LLM tier of the same
\* confidence were combined: an exact tie
C25_Witness ==
  /\ call.op = "combine"
  /\ call.pc = "returned"
  /\ call.keyword.is_vegetarian = "null"
  /\ call.rag.is_vegetarian = "true"
  /\ call.llm.is_vegetarian = "false"
  /\ call.rag.confidence = 500
  /\ call.llm.confidence = 500
  /\ call.result.confidence = 0
  /\ call.result.method = "combined"

\* the tiers of the combine call that carry a label
LabelledTiers == {t \in {call.keyword, call.rag, call.llm} : t.is_vegetarian # "null"}

\* the batch item whose only opinion is an LLM answer below the threshold
WeakOnly(item) ==
  /\ item.rag_result.is_vegetarian = "null"
  /\ item.name \in DOMAIN call.result
  /\ call.result[item.name].is_vegetarian # "null"
  /\ call.result[item.name].confidence >= 0
  /\ call.result[item.name].confidence < settings.hitl_threshold

\* C28: the confidence of a combined result is at most the largest
\* confidence among the labelled tiers combined, and a batch item whose only
\* labelled tier is an LLM answer below hitl_threshold is bucketed uncertain.
C28_NoInflation ==
  /\ (CombineReturned /\ LabelledTiers # {}) =>
       call.result.confidence <= SetMax({t.confidence : t \in LabelledTiers})
  /\ (call.op = "classify_batch_llm" /\ call.pc = "bucketed") =>
       \A j \in 1..Len(call.batch) :
         WeakOnly(call.batch[j]) =>
           \E i \in 1..Len(call.buckets.uncertain_items) :
             call.buckets.uncertain_items[i].name = call.batch[j].name

(***************************************************************************)
(* Properties of the pairing of a batch response with the batch.           *)
(***************************************************************************)
\* classify_batch_llm parsed a JSON array all of whose confidences float()
\* accepts
BatchParsed ==
  /\ call.op = "classify_batch_llm"
  /\ call.pc \in {"returned", "bucketed"}
  /\ call.provider # "raise"
  /\ call.outcome.kind = "json"
  /\ \A k \in 1..Len(call.outcome.data) :
       call.outcome.data[k].answer.conf_kind # "bad"

\* the dish name the k-th returned object is read with
DishOf(k) ==
  IF call.outcome.data[k].dish # NoDish THEN call.outcome.data[k].dish
  ELSE IF k <= Len(call.batch) THEN call.batch[k].name
  ELSE NoDish

\* the k-th returned object names a dish that matches the input name
TakenBy(name, k) ==
  /\ DishOf(k) # NoDish
  /\ Matching(call.batch, DishOf(k)) # {}
  /\ call.batch[SetMin(Matching(call.batch, DishOf(k)))].name = name

\* C22: a returned object whose dish name matches no input name in either
\* direction is paired with the input item at its index: its tier result is
\* stored under that item's name (no other object being paired with it).
C22_PositionalFallback ==
  BatchParsed =>
    \A i \in 1..Len(call.outcome.data) :
      (/\ i <= Len(call.batch)
       /\ call.outcome.data[i].dish # NoDish
       /\ Matching(call.batch, call.outcome.data[i].dish) = {}
       /\ \A k \in 1..Len(call.outcome.data) :
            k # i => ~TakenBy(call.batch[i].name, k)) =>
        /\ call.batch[i].name \in DOMAIN call.result
        /\ call.result[call.batch[i].name] = BatchTier(call.outcome.data[i].answer)

\* C30: when the response holds one object per input dish, each with the
\* exact name of its dish, in any order, every input name is mapped to the
\* tier result of the object bearing that name.
C30_ExactNamePairing ==
  (/\ BatchParsed
   /\ Len(call.outcome.data) = Len(call.batch)
   /\ Cardinality(BatchNames(call.batch)) = Len(call.batch)
   /\ {call.outcome.data[k].dish : k \in 1..Len(call.outcome.data)}
        = BatchNames(call.batch)) =>
    \A j \in 1..Len(call.batch) :
      /\ call.batch[j].name \in DOMAIN call.result
      /\ \E k \in 1..Len(call.outcome.data) :
           /\ call.outcome.data[k].dish = call.batch[j].name
           /\ call.result[call.batch[j].name] = BatchTier(call.outcome.data[k].answer)

(***************************************************************************)
(* Properties of the provider selection, the RAG tier and the tier order.  *)
(***************************************************************************)
\* the configured provider is the local one and its first probe succeeded
LocalFirst == call.llm_provider = "ollama" /\ call.probe1

\* C24: get_llm_provider returns the local provider when it is configured
\* and its probe succeeds; else the remote one when the API key has more
\* than 10 characters; else the local one if it answers the second probe,
\* whatever the first probe said; it raises exactly when none of these
\* selects a provider.
C24_ProviderOrder ==
  (call.op = "get_llm_provider" /\ call.pc = "returned") =>
    /\ LocalFirst => call.result = "ollama"
    /\ (~LocalFirst /\ call.key_len > MinKeyLength) => call.result = "openai"
    /\ (~LocalFirst /\ call.key_len <= MinKeyLength /\ call.probe2) =>
         call.result = "ollama"
    /\ call.result = "raise" <=>
         (~LocalFirst /\ call.key_len <= MinKeyLength /\ ~call.probe2)

\* the local provider was selected by the fallback although its first probe
\* had failed and the key has exactly 10 characters
C24_Witness ==
  /\ call.op = "get_llm_provider"
  /\ call.pc = "returned"
  /\ call.llm_provider = "ollama"
  /\ ~call.probe1
  /\ call.key_len = MinKeyLength
  /\ call.result = "ollama"

\* C26: only hits with relevance >= 0.3 count; a vegetarian score above the
\* non-vegetarian one and above 0.5 gives {true, min(0.85, veg / (veg +
\* non_veg + 0.1))}, symmetrically for non-vegetarian, and every other hit
\* list, the empty one included, gives {null, 0.3}; the confidence is at
\* most 0.85.
C26_RagScoring ==
  (call.op = "analyze_rag_evidence" /\ call.pc = "returned") =>
    LET veg == ScoreOf(call.evidence, "true")
        non_veg == ScoreOf(call.evidence, "false")
    IN /\ call.result.confidence <= 850
       /\ call.result.method = "rag"
       /\ IF veg > non_veg /\ veg > 500
            THEN /\ call.result.is_vegetarian = "true"
                 /\ call.result.confidence
                      = Min(850, (1000 * veg) \div (veg + non_veg + 100))
          ELSE IF non_veg > veg /\ non_veg > 500
            THEN /\ call.result.is_vegetarian = "false"
                 /\ call.result.confidence
                      = Min(850, (1000 * non_veg) \div (veg + non_veg + 100))
          ELSE /\ call.result.is_vegetarian = "null"
               /\ call.result.confidence = 300

\* the positions of the entries of a tier in the fallback chain
EntriesOf(chain, method) == {i \in 1..Len(chain) : chain[i][1] = method}

\* C27: the fallback chain of classify starts with the keyword entry, holds
\* a rag entry iff the keyword confidence is below 0.9, an llm entry iff in
\* addition the RAG confidence is below confidence_threshold (the LLM being
\* consulted exactly then, once), in the order keyword, rag, llm, and ends
\* with fallback_to_rag iff the LLM tier was consulted and returned null or
\* zero confidence.
C27_FallbackChain ==
  (call.op = "classify" /\ call.pc = "returned") =>
    LET chain == call.fallback_chain
        rag_consulted == call.keyword_result.confidence < KeywordDecisive
        llm_consulted ==
          /\ rag_consulted
          /\ call.rag_result.confidence < settings.confidence_threshold
    IN /\ chain[1] = <<"keyword", Format2(call.keyword_result.confidence)>>
       /\ EntriesOf(chain, "keyword") = {1}
       /\ EntriesOf(chain, "rag") = (IF rag_consulted THEN {2} ELSE {})
       /\ EntriesOf(chain, "llm") = (IF llm_consulted THEN {3} ELSE {})
       /\ llm_consulted = call.reached
       /\ llm_consulted => chain[3] = <<"llm", Format2(call.llm_result.confidence)>>
       /\ chain[Len(chain)] = FallbackToken <=>
            /\ llm_consulted
            /\ \/ call.llm_result.is_vegetarian = "null"
               \/ call.llm_result.confidence = 0
       /\ EntriesOf(chain, "fallback_to_rag") \subseteq {Len(chain)}

\* the LLM answered without a label but with the default confidence: all
\* three tiers were consulted and the chain ends with the token
C27_Witness ==
  /\ call.op = "classify"
  /\ call.pc = "returned"
  /\ call.dish_name = PeaSoup
  /\ call.llm_result.is_vegetarian = "null"
  /\ call.llm_result.confidence = DefaultLLMConfidence
  /\ call.fallback_chain
       = <<<<"keyword", 0>>, <<"rag", 50>>, <<"llm", 70>>, FallbackToken>>

(***************************************************************************)
(* Properties relating the two strategies.                                 *)
(***************************************************************************)
\* how many entries of the list bear the name and the confidence of e
CountLike(list, e) ==
  Cardinality({i \in 1..Len(list) :
                 list[i].name = e.name /\ list[i].confidence = e.confidence})

\* the two lists hold the same items with the same confidences, in any order
SameContent(a, b) ==
  /\ Len(a) = Len(b)
  /\ \A i \in 1..Len(a) : CountLike(a, a[i]) = CountLike(b, a[i])

\* C23: for the same items, thresholds and tier outcomes per dish, the two
\* strategies put every item in the same bucket with the same confidence
\* and list it in all_items with the same is_vegetarian.
C23_StrategyEquivalence ==
  (call.op = "strategies" /\ call.pc = "returned") =>
    /\ SameContent(call.sequential.vegetarian_items, call.batch.vegetarian_items)
    /\ SameContent(call.sequential.non_vegetarian_items,
                   call.batch.non_vegetarian_items)
    /\ SameContent(call.sequential.uncertain_items, call.batch.uncertain_items)
    /\ SameContent(call.sequential.all_items, call.batch.all_items)
    /\ \A i \in 1..Len(call.sequential.all_items) :
         \E j \in 1..Len(call.batch.all_items) :
           /\ call.batch.all_items[j].name = call.sequential.all_items[i].name
           /\ call.batch.all_items[j].is_vegetarian
                = call.sequential.all_items[i].is_vegetarian

(***************************************************************************)
(* Properties of a correction submission whose recompute call fails.       *)
(***************************************************************************)
\* the submissions for request r that ended with the error of the recompute
\* call
Failed(r) ==
  {h \in Handlers : handler[h].request_id = r /\ handler[h].result = "error"}

\* the submissions for request r that await the recompute call
InFlight(r) ==
  {h \in Handlers : handler[h].request_id = r /\ handler[h].pc = "await_recompute"}

\* C29: a correction submission whose recompute call failed has appended
\* no feedback record and has left the review record pending; after failed
\* attempts and one successful retry the log holds one record per correction
\* of the successful submission, not more.
C29_FailedSubmissionNoEffect ==
  \A r \in RequestIds :
    /\ (Failed(r) # {} /\ Succeeded(r) = {} /\ InFlight(r) = {}) =>
         /\ LoggedFor(r) = 0
         /\ r \in DOMAIN pending_reviews
    /\ (Failed(r) # {} /\ InFlight(r) = {}) =>
         \A h \in Succeeded(r) :
           Cardinality(Succeeded(r)) = 1 =>
             LoggedFor(r) <= Len(handler[h].corrections)

====
